---- MODULE Spec2Model ----
(***************************************************************************)
(* Model of the feature-toggle client of Hyphen/go-sdk                     *)
(* (pkg/toggle/toggle.go, internal/client/client.go).                      *)
(*                                                                         *)
(* A Go string that the code inspects byte by byte (the public API key) is *)
(* a sequence of one-character strings; every other Go string is a TLA+    *)
(* string.  A nil pointer, a nil interface value and a nil error are the   *)
(* records NilContext, NilUser, NilValue and NilErr.                       *)
(***************************************************************************)
EXTENDS Integers, Sequences, FiniteSets, TLC

VARIABLES
    pc,            \* "new" (no client yet), "idle", "trying" (a Post is in flight), "done"
    t,             \* the Toggle struct built by New
    call,          \* the arguments of the evaluation in progress
    evalContext,   \* the request built by buildEvaluationContext for this call
    idx,           \* position in t.horizonURLs of the endpoint being attempted
    lastErr,       \* Get's local lastErr while Get runs, NilErr otherwise
    ctxDone,       \* the caller's context.Context has been cancelled
    ret,           \* what Get returned: [val, err]
    result,        \* what the called accessor returned to its caller
    handled,       \* errors passed to the error handler during this call
    posts,         \* history: the Posts made during this call, in order
    lastOut,       \* history: what the most recent Post of this call returned
    options,       \* history: the Options New was called with
    newErr,        \* the error New returned
    thePublicKey,  \* a public API key handed to getOrgIDFromPublicKey and to New
    theOrgID,      \* what getOrgIDFromPublicKey returned for thePublicKey: [result]
    checked,       \* the t.errorHandler that the nil check of emitError read
    linkPc,        \* "idle", "waiting" (a request of a Link or NetInfo call is in flight), "done"
    link,          \* the Link struct built by link.New
    linkErr,       \* the error link.New returned
    netInfo,       \* the NetInfo struct built by netinfo.New
    netInfoErr,    \* the error netinfo.New returned
    op,            \* the Link or NetInfo call in progress
    opRet,         \* what that call returned
    opHandled,     \* errors passed to the client's error handler during that call
    requests,      \* history: the HTTP requests made during that call
    opOut,         \* history: what the HTTP request of that call returned
    envPc,         \* "idle" (LoadEnv not called yet), "done"
    fs,            \* the files of the directory LoadEnv reads, by name
    environ,       \* the environment variables of the process
    envOpts,       \* the *EnvOptions LoadEnv is called with
    envRet,        \* the error LoadEnv returned
    applied,       \* history: the files handed to godotenv, in order
    environBefore, \* history: the environment when LoadEnv was called
    lastSent       \* history: the override context and the targeting key of the evaluation before

\* the variables of the key decoder on its own
keyVars == <<thePublicKey, theOrgID>>

\* the variables of emitError run step by step
raceVars == <<checked>>

\* the variables of the Link and NetInfo clients
linkVars == <<linkPc, link, linkErr, netInfo, netInfoErr, op, opRet, opHandled, requests, opOut>>

\* the variables of LoadEnv
envVars == <<envPc, fs, environ, envOpts, envRet, applied, environBefore>>

\* what is remembered from one evaluation to the next
sentVars == <<lastSent>>

vars == <<pc, t, call, evalContext, idx, lastErr, ctxDone, ret, result, handled, posts, lastOut,
          options, newErr, keyVars, raceVars, linkVars, envVars, sentVars>>

-----------------------------------------------------------------------------
(* Bounds of the model *)

\* rand.Int63() is drawn from 0..MaxRand
MaxRand == 1
\* an explicit WithHorizonURLs list has at most MaxURLs entries
MaxURLs == 2

-----------------------------------------------------------------------------
(* Go values *)

NilContext == [nil |-> "Context"]
NilUser == [nil |-> "User"]
NilErr == [nil |-> "error"]
NilValue == [type |-> "nil"]
NilAttrs == [nil |-> "CustomAttributes"]
NoCall == [nil |-> "call"]
NoRequest == [nil |-> "toggleEvaluation"]
NoReturn == [nil |-> "return"]
NoOutcome == [nil |-> "outcome"]
NoKey == [nil |-> "publicKey"]
NoLoad == [nil |-> "load"]
NoLink == [nil |-> "Link"]
NoNetInfo == [nil |-> "NetInfo"]
NoOptions == [nil |-> "Options"]
NoFiles == [nil |-> "files"]
NoEnviron == [nil |-> "environ"]
NilEnvOptions == [nil |-> "EnvOptions"]

BoolValue(b) == [type |-> "bool", bool |-> b]
StringValue(s) == [type |-> "string", str |-> s]
NumberValue(n) == [type |-> "float64", num |-> n]
ObjectValue(o) == [type |-> "map", obj |-> o]
ArrayValue(a) == [type |-> "slice", arr |-> a]

RECURSIVE Str(_)
\* the TLA+ string spelled by a sequence of one-character strings
Str(cs) == IF cs = <<>> THEN "" ELSE Head(cs) \o Str(Tail(cs))

RECURSIVE Join(_, _)
\* strings.Join
Join(components, sep) ==
    IF components = <<>> THEN ""
    ELSE IF Len(components) = 1 THEN components[1]
    ELSE components[1] \o sep \o Join(Tail(components), sep)

\* strings.HasPrefix on byte-wise strings
HasPrefix(s, prefix) ==
    /\ Len(s) >= Len(prefix)
    /\ SubSeq(s, 1, Len(prefix)) = prefix

\* strings.TrimPrefix on byte-wise strings
TrimPrefix(s, prefix) ==
    IF HasPrefix(s, prefix) THEN SubSeq(s, Len(prefix) + 1, Len(s)) ELSE s

-----------------------------------------------------------------------------
(* encoding/base64, StdEncoding *)

Upper ==
    << "A", "B", "C", "D", "E", "F", "G", "H", "I", "J", "K", "L", "M",
       "N", "O", "P", "Q", "R", "S", "T", "U", "V", "W", "X", "Y", "Z" >>

Lower ==
    << "a", "b", "c", "d", "e", "f", "g", "h", "i", "j", "k", "l", "m",
       "n", "o", "p", "q", "r", "s", "t", "u", "v", "w", "x", "y", "z" >>

Digits == << "0", "1", "2", "3", "4", "5", "6", "7", "8", "9" >>

\* the standard base64 alphabet; a character's 6-bit value is its position - 1
encodeStd == Upper \o Lower \o Digits \o << "+", "/" >>

\* string(b) for one byte, for the bytes of letters, digits and - . : _
\* (no other byte occurs in the keys modelled)
Chr(b) ==
    IF b \in 65..90 THEN Upper[b - 64]
    ELSE IF b \in 97..122 THEN Lower[b - 96]
    ELSE IF b \in 48..57 THEN Digits[b - 47]
    ELSE IF b = 45 THEN "-"
    ELSE IF b = 46 THEN "."
    ELSE IF b = 58 THEN ":"
    ELSE IF b = 95 THEN "_"
    ELSE "?"

IsStdChar(c) == \E k \in 1..Len(encodeStd) : encodeStd[k] = c

decodeMap(c) == (CHOOSE k \in 1..Len(encodeStd) : encodeStd[k] = c) - 1

\* the bytes of one 4-character quantum: <<>> with ok = FALSE when it is corrupt.
\* Padding is accepted in the last quantum only, as "xx==" or "xxx=".
decodeQuantum(q, last) ==
    LET n == IF q[4] # "=" THEN 4
             ELSE IF q[3] # "=" THEN 3
             ELSE 2
        digits == SubSeq(q, 1, n)
        wellFormed == /\ \A k \in 1..n : IsStdChar(digits[k])
                      /\ n < 4 => last
        val == LET d(k) == IF k <= n THEN decodeMap(digits[k]) ELSE 0
               IN  d(1) * 262144 + d(2) * 4096 + d(3) * 64 + d(4)
        bytes == << val \div 65536, (val \div 256) % 256, val % 256 >>
    IN  IF wellFormed
        THEN [ok |-> TRUE, bytes |-> SubSeq(bytes, 1, n - 1)]
        ELSE [ok |-> FALSE, bytes |-> <<>>]

RECURSIVE decodeQuanta(_)
decodeQuanta(s) ==
    IF s = <<>> THEN [ok |-> TRUE, bytes |-> <<>>]
    ELSE LET q == decodeQuantum(SubSeq(s, 1, 4), Len(s) = 4)
             rest == decodeQuanta(SubSeq(s, 5, Len(s)))
         IN  IF q.ok /\ rest.ok
             THEN [ok |-> TRUE, bytes |-> q.bytes \o rest.bytes]
             ELSE [ok |-> FALSE, bytes |-> <<>>]

\* base64.StdEncoding.DecodeString: carriage returns and line feeds are
\* skipped; the input is padded, so what is left is corrupt when its length
\* is not a multiple of four
DecodeString(s) ==
    LET src == SelectSeq(s, LAMBDA c : c \notin {"\n", "\r"})
    IN  IF Len(src) % 4 # 0 THEN [ok |-> FALSE, bytes |-> <<>>]
        ELSE decodeQuanta(src)

\* string(decoded)
BytesToString(bytes) == [k \in 1..Len(bytes) |-> Chr(bytes[k])]

RECURSIVE Split(_, _)
\* strings.Split(s, sep) for a one-character separator: never empty
Split(s, sep) ==
    IF \A k \in 1..Len(s) : s[k] # sep THEN <<s>>
    ELSE LET p == CHOOSE k \in 1..Len(s) :
                      s[k] = sep /\ \A j \in 1..(k - 1) : s[j] # sep
         IN  <<SubSeq(s, 1, p - 1)>> \o Split(SubSeq(s, p + 1, Len(s)), sep)

-----------------------------------------------------------------------------
(* pkg/toggle: key decoder, endpoint resolver, targeting key resolver *)

PublicPrefix == << "p", "u", "b", "l", "i", "c", "_" >>

\* getOrgIDFromPublicKey without the check of the prefix
getOrgIDFromPublicKeyAnyPrefix(publicKey) ==
    LET decoded == DecodeString(TrimPrefix(publicKey, PublicPrefix))
    IN  IF ~decoded.ok THEN <<>>
        ELSE Split(BytesToString(decoded.bytes), ":")[1]

\* getOrgIDFromPublicKey returning all of the decoded text
getOrgIDFromPublicKeyWhole(publicKey) ==
    IF ~HasPrefix(publicKey, PublicPrefix) THEN <<>>
    ELSE LET decoded == DecodeString(TrimPrefix(publicKey, PublicPrefix))
         IN  IF ~decoded.ok THEN <<>> ELSE BytesToString(decoded.bytes)

\* getOrgIDFromPublicKey: "" (the empty sequence) when no organization is found.
\* strings.Split never returns an empty slice, so the len(parts) == 0 branch is dead.
getOrgIDFromPublicKey(publicKey) ==
    IF ~HasPrefix(publicKey, PublicPrefix) THEN <<>>
    ELSE LET keyWithoutPrefix == TrimPrefix(publicKey, PublicPrefix)
             decoded == DecodeString(keyWithoutPrefix)
         IN  IF ~decoded.ok THEN <<>>
             ELSE LET parts == Split(BytesToString(decoded.bytes), ":")
                  IN  IF Len(parts) = 0 THEN <<>> ELSE parts[1]

\* "https://toggle.hyphen.cloud"
GlobalHorizonURL ==
    << "h", "t", "t", "p", "s", ":", "/", "/", "t", "o", "g", "g", "l", "e", ".", "h", "y", "p", "h", "e", "n", ".", "c", "l", "o", "u", "d" >>

\* fmt.Sprintf("https://%s.toggle.hyphen.cloud", orgID)
OrgHorizonURL(orgID) ==
    << "h", "t", "t", "p", "s", ":", "/", "/" >> \o orgID
        \o << ".", "t", "o", "g", "g", "l", "e", ".", "h", "y", "p", "h", "e", "n", ".", "c", "l", "o", "u", "d" >>

\* getDefaultHorizonURL
getDefaultHorizonURL(publicKey) ==
    IF publicKey = <<>> THEN GlobalHorizonURL
    ELSE LET orgID == getOrgIDFromPublicKey(publicKey)
         IN  IF orgID = <<>> THEN GlobalHorizonURL ELSE OrgHorizonURL(orgID)

\* getDefaultHorizonURLs with the global endpoint ahead of the organization's
getDefaultHorizonURLsGlobalFirst(publicKey) ==
    LET defaultURL == GlobalHorizonURL
    IN  IF publicKey = <<>> THEN <<defaultURL>>
        ELSE LET orgURL == getDefaultHorizonURL(publicKey)
             IN  IF orgURL = defaultURL THEN <<defaultURL>>
                 ELSE <<defaultURL, orgURL>>

\* getDefaultHorizonURLs without the comparison of the two endpoints
getDefaultHorizonURLsBoth(publicKey) ==
    << getDefaultHorizonURL(publicKey), GlobalHorizonURL >>

\* getDefaultHorizonURLs
getDefaultHorizonURLs(publicKey) ==
    LET defaultURL == GlobalHorizonURL
    IN  IF publicKey = <<>> THEN <<defaultURL>>
        ELSE LET orgURL == getDefaultHorizonURL(publicKey)
             IN  IF orgURL = defaultURL THEN <<defaultURL>>
                 ELSE <<orgURL, defaultURL>>

\* fmt.Sprintf("%d", n) for n >= 0
Itoa(n) == ToString(n)

\* generateTargetKey, with r the value rand.Int63() returns
generateTargetKey(applicationID, environment, r) ==
    LET randomSuffix == Itoa(r)
        c1 == IF applicationID # "" THEN <<applicationID>> ELSE <<>>
        c2 == IF environment # "" THEN Append(c1, environment) ELSE c1
        components == Append(c2, randomSuffix)
    IN  Join(components, "-")

\* getTargetingKey returning the id of any user, set or not
getTargetingKeyAnyUser(ctx, applicationID, environment, r) ==
    IF ctx.TargetingKey # "" THEN ctx.TargetingKey
    ELSE IF ctx.User # NilUser THEN ctx.User.ID
    ELSE generateTargetKey(applicationID, environment, r)

\* getTargetingKey looking at the user before the targeting key
getTargetingKeyUserFirst(ctx, applicationID, environment, r) ==
    IF ctx.User # NilUser /\ ctx.User.ID # "" THEN ctx.User.ID
    ELSE IF ctx.TargetingKey # "" THEN ctx.TargetingKey
    ELSE generateTargetKey(applicationID, environment, r)

\* getTargetingKey, with r the value rand.Int63() returns if it is called
getTargetingKey(ctx, applicationID, environment, r) ==
    IF ctx.TargetingKey # "" THEN ctx.TargetingKey
    ELSE IF ctx.User # NilUser /\ ctx.User.ID # "" THEN ctx.User.ID
    ELSE generateTargetKey(applicationID, environment, r)

\* buildEvaluationContext filling what the override leaves empty from the
\* default context
buildEvaluationContextMerged(tg, contextOverride, r) ==
    LET ctx == IF contextOverride # NilContext THEN contextOverride
               ELSE tg.defaultContext
        dflt == IF tg.defaultContext # NilContext THEN tg.defaultContext ELSE ctx
        pick(own, other) == IF own = "" THEN other ELSE own
        key == IF ctx = NilContext THEN ""
               ELSE pick(ctx.TargetingKey, dflt.TargetingKey)
    IN  [Application |-> tg.applicationID,
         Environment |-> tg.environment,
         TargetingKey |-> IF key # "" THEN key
                          ELSE IF ctx # NilContext
                          THEN getTargetingKey(ctx, tg.applicationID, tg.environment, r)
                          ELSE tg.defaultTargetingKey,
         IPAddress |-> IF ctx = NilContext THEN ""
                       ELSE pick(ctx.IPAddress, dflt.IPAddress),
         CustomAttributes |-> IF ctx = NilContext THEN NilAttrs
                              ELSE IF ctx.CustomAttributes = NilAttrs
                              THEN dflt.CustomAttributes
                              ELSE ctx.CustomAttributes,
         User |-> IF ctx = NilContext THEN NilUser
                  ELSE IF ctx.User = NilUser THEN dflt.User ELSE ctx.User]

\* buildEvaluationContext falling back to the cached default targeting key
\* whenever the copied key is empty, with or without an active context
buildEvaluationContextCached(tg, contextOverride, r) ==
    LET ctx == IF contextOverride # NilContext THEN contextOverride
               ELSE tg.defaultContext
        TargetingKey == IF ctx # NilContext /\ ctx.TargetingKey # ""
                        THEN ctx.TargetingKey
                        ELSE tg.defaultTargetingKey
    IN  [Application |-> tg.applicationID,
         Environment |-> tg.environment,
         TargetingKey |-> TargetingKey,
         IPAddress |-> IF ctx # NilContext THEN ctx.IPAddress ELSE "",
         CustomAttributes |-> IF ctx # NilContext THEN ctx.CustomAttributes
                              ELSE NilAttrs,
         User |-> IF ctx # NilContext THEN ctx.User ELSE NilUser]

\* buildEvaluationContext, with r the value rand.Int63() returns if it is called
buildEvaluationContext(tg, contextOverride, r) ==
    LET ctx == IF contextOverride # NilContext THEN contextOverride
               ELSE tg.defaultContext
        copied == IF ctx # NilContext
                  THEN [Application |-> tg.applicationID,
                        Environment |-> tg.environment,
                        TargetingKey |-> ctx.TargetingKey,
                        IPAddress |-> ctx.IPAddress,
                        CustomAttributes |-> ctx.CustomAttributes,
                        User |-> ctx.User]
                  ELSE [Application |-> tg.applicationID,
                        Environment |-> tg.environment,
                        TargetingKey |-> "",
                        IPAddress |-> "",
                        CustomAttributes |-> NilAttrs,
                        User |-> NilUser]
    IN  IF copied.TargetingKey = ""
        THEN IF ctx # NilContext
             THEN [copied EXCEPT !.TargetingKey =
                       getTargetingKey(ctx, tg.applicationID, tg.environment, r)]
             ELSE [copied EXCEPT !.TargetingKey = tg.defaultTargetingKey]
        ELSE copied

-----------------------------------------------------------------------------
(* Inputs of New *)

\* the key of the package's tests: "public_" + base64("test-org:secret")
KeyTestOrg ==
    << "p", "u", "b", "l", "i", "c", "_", "d", "G", "V", "z", "d", "C", "1", "v", "c", "m", "c", "6", "c", "2", "V", "j", "c", "m", "V", "0" >>

\* "invalid_key", the key without the public prefix of the package's tests
KeyNoPrefix == << "i", "n", "v", "a", "l", "i", "d", "_", "k", "e", "y" >>

\* "public_" + base64("org2:k"), a key found in HYPHEN_PUBLIC_API_KEY
KeyOrg2 == << "p", "u", "b", "l", "i", "c", "_", "b", "3", "J", "n", "M", "j", "p", "r" >>

OptionKeys == { <<>>, KeyTestOrg, KeyNoPrefix }
EnvKeys == { <<>>, KeyOrg2 }

OptionApplicationIDs == { "", "app" }
EnvApplicationIDs == { "", "envapp" }
OptionEnvironments == { "", "production" }
OptionTargetingKeys == { "", "configured-tk" }

\* the base URLs an explicit WithHorizonURLs list is made of; one ends in "/"
CustomURLs ==
    << << "h", "t", "t", "p", ":", "/", "/", "h", "1" >>,
       << "h", "t", "t", "p", ":", "/", "/", "h", "2", "/" >>,
       << "h", "t", "t", "p", ":", "/", "/", "h", "3" >>,
       << "h", "t", "t", "p", ":", "/", "/", "h", "4", "/" >> >>

\* the explicit lists: none, or the first n custom URLs
OptionHorizonURLs == { SubSeq(CustomURLs, 1, n) : n \in 0..MaxURLs }

UserOf(id) == [ID |-> id, Email |-> "", Name |-> "", CustomAttributes |-> NilAttrs]

\* the contexts a caller passes: with and without a targeting key, with a user
\* that has an id, a user without one and no user.  who tells the default
\* context's values from the override's.
ContextsOf(who) ==
    LET attrs == [plan |-> who]
        ip == who \o "-ip"
    IN  { [TargetingKey |-> who \o "-tk", IPAddress |-> ip,
           CustomAttributes |-> attrs, User |-> UserOf(who \o "-user")],
          [TargetingKey |-> "", IPAddress |-> ip,
           CustomAttributes |-> attrs, User |-> UserOf(who \o "-user")],
          [TargetingKey |-> "", IPAddress |-> ip,
           CustomAttributes |-> attrs, User |-> UserOf("")],
          [TargetingKey |-> "", IPAddress |-> "",
           CustomAttributes |-> NilAttrs, User |-> NilUser] }

DefaultContexts == {NilContext} \cup ContextsOf("default")
OverrideContexts == {NilContext} \cup ContextsOf("override")

Rands == 0..MaxRand

NilHandler == [nil |-> "func(error)"]
Handlers == { NilHandler, [fn |-> "handler"] }

NoToggle == [nil |-> "Toggle"]

-----------------------------------------------------------------------------
(* New *)

\* New keeping the endpoints of the key behind an explicit list
NewToggleAppendDefaults(opts, envKey, envApp, r) ==
    LET publicAPIKey == IF opts.PublicAPIKey = <<>> THEN envKey
                        ELSE opts.PublicAPIKey
        applicationID == IF opts.ApplicationID = "" THEN envApp
                         ELSE opts.ApplicationID
        environment == IF opts.Environment = "" THEN "development"
                       ELSE opts.Environment
    IN  [publicAPIKey |-> publicAPIKey,
         organizationID |-> IF publicAPIKey # <<>>
                            THEN getOrgIDFromPublicKey(publicAPIKey)
                            ELSE <<>>,
         applicationID |-> applicationID,
         environment |-> environment,
         horizonURLs |-> opts.HorizonURLs \o getDefaultHorizonURLs(publicAPIKey),
         defaultContext |-> opts.DefaultContext,
         defaultTargetingKey |->
             IF opts.DefaultTargetingKey # "" THEN opts.DefaultTargetingKey
             ELSE IF opts.DefaultContext # NilContext
                  THEN getTargetingKey(opts.DefaultContext, applicationID, environment, r)
                  ELSE generateTargetKey(applicationID, environment, r),
         errorHandler |-> NilHandler]

\* New(options...): opts are the Options the functional options filled in,
\* envKey and envApp the values of HYPHEN_PUBLIC_API_KEY and
\* HYPHEN_APPLICATION_ID, r the value rand.Int63() returns if it is called
NewToggle(opts, envKey, envApp, r) ==
    LET publicAPIKey == IF opts.PublicAPIKey = <<>> THEN envKey
                        ELSE opts.PublicAPIKey
        applicationID == IF opts.ApplicationID = "" THEN envApp
                         ELSE opts.ApplicationID
        environment == IF opts.Environment = "" THEN "development"
                       ELSE opts.Environment
        organizationID == IF publicAPIKey # <<>>
                          THEN getOrgIDFromPublicKey(publicAPIKey)
                          ELSE <<>>
        horizonURLs == IF Len(opts.HorizonURLs) = 0
                       THEN getDefaultHorizonURLs(publicAPIKey)
                       ELSE opts.HorizonURLs
        defaultTargetingKey ==
            IF opts.DefaultTargetingKey # "" THEN opts.DefaultTargetingKey
            ELSE IF opts.DefaultContext # NilContext
                 THEN getTargetingKey(opts.DefaultContext, applicationID, environment, r)
                 ELSE generateTargetKey(applicationID, environment, r)
    IN  [publicAPIKey |-> publicAPIKey,
         organizationID |-> organizationID,
         applicationID |-> applicationID,
         environment |-> environment,
         horizonURLs |-> horizonURLs,
         defaultContext |-> opts.DefaultContext,
         defaultTargetingKey |-> defaultTargetingKey,
         errorHandler |-> NilHandler]

\* the options that decide where the client sends: every key with every
\* explicit URL list, the rest left at one value
EndpointOptions ==
    [PublicAPIKey : OptionKeys,
     ApplicationID : {"app"},
     Environment : {""},
     DefaultContext : {NilContext},
     HorizonURLs : OptionHorizonURLs,
     DefaultTargetingKey : {""}]

\* the options that decide what the client sends: every application id,
\* environment, default context and default targeting key, with the key of
\* the tests and one explicit URL
ContextOptions ==
    [PublicAPIKey : {KeyTestOrg},
     ApplicationID : OptionApplicationIDs,
     Environment : OptionEnvironments,
     DefaultContext : DefaultContexts,
     HorizonURLs : {SubSeq(CustomURLs, 1, 1)},
     DefaultTargetingKey : OptionTargetingKeys]

Options == EndpointOptions \cup ContextOptions

-----------------------------------------------------------------------------
(* internal/client and the wire: requests, responses, JSON bodies *)

\* http.StatusOK
StatusOK == 200

\* client.CreateHeaders: the x-api-key header is set for a non-empty key only
CreateHeaders(apiKey) ==
    LET headers == [ContentType |-> "application/json", Accept |-> "application/json"]
    IN  IF apiKey # <<>>
        THEN [ContentType |-> headers.ContentType, Accept |-> headers.Accept,
              XApiKey |-> apiKey]
        ELSE headers

\* strings.TrimSuffix(baseURL, "/")
TrimSlash(baseURL) ==
    IF Len(baseURL) >= 1 /\ baseURL[Len(baseURL)] = "/"
    THEN SubSeq(baseURL, 1, Len(baseURL) - 1)
    ELSE baseURL

\* fmt.Sprintf("%s/toggle/evaluate", strings.TrimSuffix(baseURL, "/"))
EvaluateURL(baseURL) ==
    TrimSlash(baseURL) \o << "/", "t", "o", "g", "g", "l", "e", "/", "e", "v", "a", "l", "u", "a", "t", "e" >>

\* JSON values as they stand in a response body
JSONNull == [json |-> "null"]
JSONBool(b) == [json |-> "bool", bool |-> b]
JSONString(s) == [json |-> "string", str |-> s]
JSONNumber(n) == [json |-> "number", num |-> n]
JSONObject(o) == [json |-> "object", obj |-> o]
JSONArray(a) == [json |-> "array", arr |-> a]
JSONAbsent == [json |-> "absent"]

\* encoding/json decoding a JSON value into an interface{}
decodeInterface(j) ==
    CASE j.json = "null" -> NilValue
      [] j.json = "bool" -> BoolValue(j.bool)
      [] j.json = "string" -> StringValue(j.str)
      [] j.json = "number" -> NumberValue(j.num)
      [] j.json = "object" -> ObjectValue(j.obj)
      [] j.json = "array" -> ArrayValue(j.arr)

\* the toggle key the calls of the model ask for, and another one
TheToggleKey == "feature-flag"
OtherToggleKey == "other-flag"

\* the values the server holds for a toggle, one of every JSON type
ServerValues ==
    { JSONBool(FALSE), JSONString("on"), JSONNumber(42),
      JSONObject([color |-> "blue"]), JSONArray(<<1>>), JSONNull }

\* {"key": k, "value": v, "type": ...}
EntryOf(k, v) == [key |-> JSONString(k), value |-> v, type |-> JSONString(v.json)]

\* a body that is not JSON at all
BodyGarbage == [text |-> "garbage"]
\* {}
BodyEmptyObject == [text |-> "json", toggles |-> JSONAbsent]
\* {"toggles": null}
BodyNullToggles == [text |-> "json", toggles |-> JSONNull]
\* {"toggles": [1]}: JSON, but not of the shape of EvaluationResponse
BodyArrayToggles == [text |-> "json", toggles |-> JSONArray(<<1>>)]
\* {"toggles": {k: {"key": k, "value": v, "type": ...}}}
BodyWith(k, v) ==
    [text |-> "json", toggles |-> JSONObject([x \in {k} |-> EntryOf(k, v)])]

Bodies ==
    { BodyGarbage, BodyEmptyObject, BodyNullToggles, BodyArrayToggles,
      BodyWith(OtherToggleKey, JSONBool(TRUE)) }
    \cup { BodyWith(TheToggleKey, v) : v \in ServerValues }

\* Unmarshal refusing a body without a "toggles" object
UnmarshalRequiringToggles(body) ==
    IF body.text # "json" THEN [ok |-> FALSE, Toggles |-> <<>>]
    ELSE CASE body.toggles.json = "object" ->
                  [ok |-> TRUE,
                   Toggles |-> [k \in DOMAIN body.toggles.obj |->
                                   [Key |-> body.toggles.obj[k].key.str,
                                    Value |-> decodeInterface(body.toggles.obj[k].value),
                                    Type |-> body.toggles.obj[k].type.str]]]
           [] OTHER -> [ok |-> FALSE, Toggles |-> <<>>]

\* json.Unmarshal(resp.Body, &evalResp): the error, or the Toggles map decoded.
\* A missing or null "toggles" leaves the map nil, which holds no key.
Unmarshal(body) ==
    IF body.text # "json" THEN [ok |-> FALSE, Toggles |-> <<>>]
    ELSE CASE body.toggles.json \in {"absent", "null"} ->
                  [ok |-> TRUE, Toggles |-> <<>>]
           [] body.toggles.json = "object" ->
                  [ok |-> TRUE,
                   Toggles |-> [k \in DOMAIN body.toggles.obj |->
                                   [Key |-> body.toggles.obj[k].key.str,
                                    Value |-> decodeInterface(body.toggles.obj[k].value),
                                    Type |-> body.toggles.obj[k].type.str]]]
           [] OTHER -> [ok |-> FALSE, Toggles |-> <<>>]

\* what t.client.Post returns: an error (no response), or a response
TransportError(cause) == [err |-> cause]
Response(code, body) == [err |-> "", StatusCode |-> code, Body |-> body]

\* what an endpoint can answer while the context is live: no connection, a
\* server error, a 2xx that is not 200, and 200 with each of the bodies
LiveOutcomes ==
    { TransportError("dial tcp: connection refused"),
      Response(500, BodyGarbage),
      Response(201, BodyWith(TheToggleKey, JSONBool(FALSE))) }
    \cup { Response(StatusOK, b) : b \in Bodies }

\* http.Client.Do under a cancelled context returns the context's error
CancelledOutcomes == { TransportError("context canceled") }

-----------------------------------------------------------------------------
(* Toggle.Get and the typed accessors *)

\* attemptError taking every 2xx status for a success
attemptErrorAny2xx(baseURL, out) ==
    IF out.err # ""
    THEN [kind |-> "request failed", baseURL |-> baseURL, cause |-> out.err]
    ELSE IF out.StatusCode \notin 200..299
    THEN [kind |-> "HTTP status", code |-> out.StatusCode]
    ELSE IF ~Unmarshal(out.Body).ok
    THEN [kind |-> "failed to unmarshal response"]
    ELSE NilErr

\* attemptError taking a response without the requested key for a failure
attemptErrorKeyAbsent(baseURL, out) ==
    IF out.err # ""
    THEN [kind |-> "request failed", baseURL |-> baseURL, cause |-> out.err]
    ELSE IF out.StatusCode # StatusOK
    THEN [kind |-> "HTTP status", code |-> out.StatusCode]
    ELSE IF ~Unmarshal(out.Body).ok
    THEN [kind |-> "failed to unmarshal response"]
    ELSE IF TheToggleKey \notin DOMAIN Unmarshal(out.Body).Toggles
    THEN [kind |-> "toggle not found"]
    ELSE NilErr

\* the error Get records for one attempt, NilErr when the attempt succeeded:
\* the three checks of the loop body, in the order of the code
attemptError(baseURL, out) ==
    IF out.err # ""
    THEN [kind |-> "request failed", baseURL |-> baseURL, cause |-> out.err]
    ELSE IF out.StatusCode # StatusOK
    THEN [kind |-> "HTTP status", code |-> out.StatusCode]
    ELSE IF ~Unmarshal(out.Body).ok
    THEN [kind |-> "failed to unmarshal response"]
    ELSE NilErr

\* successReturn never reading the response
successReturnDefault(out, toggleKey, defaultValue) ==
    [val |-> defaultValue, err |-> NilErr]

\* successReturn returning the zero Evaluation's value for a key that is absent
successReturnZeroValue(out, toggleKey, defaultValue) ==
    LET evalResp == Unmarshal(out.Body)
    IN  IF toggleKey \in DOMAIN evalResp.Toggles
        THEN [val |-> evalResp.Toggles[toggleKey].Value, err |-> NilErr]
        ELSE [val |-> NilValue, err |-> NilErr]

\* what Get returns from a response that passed the three checks
successReturn(out, toggleKey, defaultValue) ==
    LET evalResp == Unmarshal(out.Body)
    IN  IF toggleKey \in DOMAIN evalResp.Toggles
        THEN [val |-> evalResp.Toggles[toggleKey].Value, err |-> NilErr]
        ELSE [val |-> defaultValue, err |-> NilErr]

\* lastErr keeping the first failure of the call
recordErrorKeepFirst(previous, err) == IF previous = NilErr THEN err ELSE previous

\* lastErr = ...: the failure of an attempt takes the place of the one
\* recorded before
recordError(previous, err) == err

\* fmt.Errorf("all horizon URLs failed. Last error: %w", lastErr)
allFailedError(last) == [kind |-> "all horizon URLs failed", last |-> last]

\* what Get returns after the loop
failureReturn(last, defaultValue) ==
    [val |-> defaultValue, err |-> allFailedError(last)]

\* emitError that drops the error
emitErrorDropped(tg, err, calls) == calls

\* emitError: the handler calls made, after this one
emitError(tg, err, calls) ==
    IF tg.errorHandler # NilHandler
    THEN Append(calls, [handler |-> tg.errorHandler, err |-> err])
    ELSE calls

\* the dynamic type each typed accessor asserts
AssertedType(fn) ==
    CASE fn = "GetBoolean" -> "bool"
      [] fn = "GetString" -> "string"
      [] fn = "GetNumber" -> "float64"
      [] fn = "GetObject" -> "map"

\* the typed accessors without their type assertion
typedReturnUnasserted(fn, got, defaultValue) ==
    IF got.err # NilErr THEN [val |-> defaultValue] ELSE [val |-> got.val]

\* the zero value of each typed accessor's result type
ZeroOf(fn) ==
    CASE fn = "GetBoolean" -> BoolValue(FALSE)
      [] fn = "GetString" -> StringValue("")
      [] fn = "GetNumber" -> NumberValue(0)
      [] fn = "GetObject" -> ObjectValue([nil |-> "map"])

\* the typed accessors returning the zero value when Get failed
typedReturnZeroOnError(fn, got, defaultValue) ==
    IF got.err # NilErr THEN [val |-> ZeroOf(fn)]
    ELSE IF got.val.type = AssertedType(fn) THEN [val |-> got.val]
    ELSE [val |-> defaultValue]

\* the typed accessors returning the zero value when the assertion fails
typedReturnZeroOnMismatch(fn, got, defaultValue) ==
    IF got.err # NilErr THEN [val |-> defaultValue]
    ELSE IF got.val.type = AssertedType(fn) THEN [val |-> got.val]
    ELSE [val |-> ZeroOf(fn)]

\* GetBoolean, GetString, GetNumber, GetObject on what Get returned
typedReturn(fn, got, defaultValue) ==
    IF got.err # NilErr THEN [val |-> defaultValue]
    ELSE IF got.val.type = AssertedType(fn) THEN [val |-> got.val]
    ELSE [val |-> defaultValue]

\* what the function called returns to its caller: Get returns (value, error),
\* a typed accessor a value only
callReturn(fn, got, defaultValue) ==
    IF fn = "Get" THEN got ELSE typedReturn(fn, got, defaultValue)

TypedAccessors == { "GetBoolean", "GetString", "GetNumber", "GetObject" }
Accessors == {"Get"} \cup TypedAccessors

\* the calls made: every function with every override context and without one
Calls == Accessors \X OverrideContexts

\* the default a caller passes to each function
DefaultOf(fn) ==
    CASE fn = "Get" -> StringValue("fallback")
      [] fn = "GetBoolean" -> BoolValue(TRUE)
      [] fn = "GetString" -> StringValue("fallback")
      [] fn = "GetNumber" -> NumberValue(7)
      [] fn = "GetObject" -> ObjectValue([color |-> "red"])

\* a loop that ends at the first failure
hasNextNever(tg, i) == FALSE

\* a range loop that leaves out the last endpoint
hasNextButLast(tg, i) == i + 1 < Len(tg.horizonURLs)

\* the range loop over t.horizonURLs: an endpoint follows the one at position i
hasNext(tg, i) == i < Len(tg.horizonURLs)

\* PostTo with the targeting key generated anew for every endpoint after
\* the first
PostToRegenerated(tg, i, request) ==
    [baseURL |-> tg.horizonURLs[i],
     url |-> EvaluateURL(tg.horizonURLs[i]),
     headers |-> CreateHeaders(tg.publicAPIKey),
     body |-> IF i > 1
              THEN [request EXCEPT !.TargetingKey =
                        generateTargetKey(tg.applicationID, tg.environment, i)]
              ELSE request,
     state |-> "in flight"]

\* the Post Get makes to the endpoint at position i
PostTo(tg, i, request) ==
    [baseURL |-> tg.horizonURLs[i],
     url |-> EvaluateURL(tg.horizonURLs[i]),
     headers |-> CreateHeaders(tg.publicAPIKey),
     body |-> request,
     state |-> "in flight"]

-----------------------------------------------------------------------------
(* The state machine *)

Init ==
    /\ pc = "new"
    /\ t = NoToggle
    /\ call = NoCall
    /\ evalContext = NoRequest
    /\ idx = 0
    /\ lastErr = NilErr
    /\ ctxDone = FALSE
    /\ ret = NoReturn
    /\ result = NoReturn
    /\ handled = <<>>
    /\ posts = <<>>
    /\ lastOut = NoOutcome
    /\ options = NoOptions
    /\ newErr = NoReturn
    /\ thePublicKey = NoKey
    /\ theOrgID = NoReturn
    /\ checked = NoLoad
    /\ linkPc = "idle"
    /\ link = NoLink
    /\ linkErr = NoReturn
    /\ netInfo = NoNetInfo
    /\ netInfoErr = NoReturn
    /\ op = NoCall
    /\ opRet = NoReturn
    /\ opHandled = <<>>
    /\ requests = <<>>
    /\ opOut = NoOutcome
    /\ envPc = "idle"
    /\ fs = NoFiles
    /\ environ = NoEnviron
    /\ envOpts = NilEnvOptions
    /\ envRet = NoReturn
    /\ applied = <<>>
    /\ environBefore = NoEnviron
    /\ lastSent = NoCall

\* toggle.New(options...)
New ==
    /\ pc = "new"
    /\ \E opts \in Options, envKey \in EnvKeys, envApp \in EnvApplicationIDs, r \in Rands :
           /\ t' = NewToggle(opts, envKey, envApp, r)
           /\ options' = opts
    /\ newErr' = NilErr
    /\ pc' = "idle"
    /\ UNCHANGED <<call, evalContext, idx, lastErr, ctxDone, ret, result, handled, posts, lastOut>>
    /\ UNCHANGED <<keyVars, raceVars, linkVars, envVars, sentVars>>

\* SetErrorHandler that also drops the default context
setErrorHandlerDroppingContext(tg, handler) ==
    [tg EXCEPT !.errorHandler = handler, !.defaultContext = NilContext]

\* the Toggle after t.SetErrorHandler(handler): t.errorHandler = handler
setErrorHandler(tg, handler) == [tg EXCEPT !.errorHandler = handler]

\* t.SetErrorHandler(handler), between evaluations
SetErrorHandler ==
    /\ pc = "idle"
    /\ \E handler \in Handlers :
           /\ handler # t.errorHandler
           /\ t' = setErrorHandler(t, handler)
    /\ UNCHANGED <<pc, call, evalContext, idx, lastErr, ctxDone, ret, result, handled, posts,
                   lastOut, options, newErr, keyVars, raceVars, linkVars, envVars, sentVars>>

\* a caller enters Get or a typed accessor: the request is built and posted
\* to the first endpoint
Start ==
    /\ pc = "idle"
    /\ \E c \in Calls, r \in Rands :
           LET fn == c[1]
               contextOverride == c[2]
               request == buildEvaluationContext(t, contextOverride, r)
           IN  /\ call' = [fn |-> fn, toggleKey |-> TheToggleKey,
                           defaultValue |-> DefaultOf(fn),
                           contextOverride |-> contextOverride]
               /\ evalContext' = request
               /\ posts' = << PostTo(t, 1, request) >>
    /\ idx' = 1
    /\ lastErr' = NilErr
    /\ pc' = "trying"
    /\ UNCHANGED <<t, ctxDone, ret, result, handled, lastOut, options, newErr, keyVars, raceVars, linkVars, envVars, sentVars>>

\* the caller cancels the context while a Post is in flight
Cancel ==
    /\ pc = "trying"
    /\ ~ctxDone
    /\ ctxDone' = TRUE
    /\ UNCHANGED <<pc, t, call, evalContext, idx, lastErr, ret, result, handled, posts,
                   lastOut, options, newErr, keyVars, raceVars, linkVars, envVars, sentVars>>

\* the Post in flight returns and Get runs on: to the next Post, or to its return
\* and the return of the accessor that called it
Respond ==
    /\ pc = "trying"
    /\ \E out \in (IF ctxDone THEN CancelledOutcomes ELSE LiveOutcomes) :
           LET err == attemptError(t.horizonURLs[idx], out)
               returned == [posts EXCEPT ![idx].state = "returned"]
           IN  /\ lastOut' = out
               /\ IF err = NilErr
                  THEN LET got == successReturn(out, call.toggleKey, call.defaultValue)
                       IN  /\ ret' = got
                           /\ result' = callReturn(call.fn, got, call.defaultValue)
                           /\ posts' = returned
                           /\ lastErr' = NilErr
                           /\ pc' = "done"
                           /\ UNCHANGED <<idx, handled>>
                  ELSE IF hasNext(t, idx)
                  THEN /\ lastErr' = recordError(lastErr, err)
                       /\ idx' = idx + 1
                       /\ posts' = Append(returned, PostTo(t, idx + 1, evalContext))
                       /\ UNCHANGED <<pc, ret, result, handled>>
                  ELSE LET got == failureReturn(recordError(lastErr, err), call.defaultValue)
                       IN  /\ lastErr' = NilErr
                           /\ handled' = emitError(t, got.err, handled)
                           /\ ret' = got
                           /\ result' = callReturn(call.fn, got, call.defaultValue)
                           /\ posts' = returned
                           /\ pc' = "done"
                           /\ UNCHANGED idx
    /\ UNCHANGED <<t, call, evalContext, ctxDone, options, newErr, keyVars, raceVars, linkVars, envVars, sentVars>>

\* the caller has the result; the client is ready for the next evaluation
Return ==
    /\ pc = "done"
    /\ pc' = "idle"
    /\ call' = NoCall
    /\ evalContext' = NoRequest
    /\ idx' = 0
    /\ lastErr' = NilErr
    /\ ctxDone' = FALSE
    /\ ret' = NoReturn
    /\ result' = NoReturn
    /\ handled' = <<>>
    /\ posts' = <<>>
    /\ lastOut' = NoOutcome
    /\ UNCHANGED <<t, options, newErr, keyVars, raceVars, linkVars, envVars, sentVars>>

Next == New \/ SetErrorHandler \/ Start \/ Cancel \/ Respond \/ Return

Spec == Init /\ [][Next]_vars

\* every Post returns: http.Client.Do comes back with a response or an error
\* (the client of internal/client has a timeout of 30 seconds), and Get runs
\* on from there
FairSpec == Spec /\ WF_vars(Respond)

-----------------------------------------------------------------------------
(* The key decoder on its own: getOrgIDFromPublicKey called directly, as   *)
(* TestGetOrgIDFromPublicKey calls it, and New called with the same key    *)

\* keys "public_" + base64(tenant + ":" + secret), for the tenants test-org,
\* org2, t and the empty one and the secrets secret, k and the empty one
ValidKeys ==
    {
      \* "test-org:secret"
      << "p", "u", "b", "l", "i", "c", "_", "d", "G", "V", "z", "d", "C",
         "1", "v", "c", "m", "c", "6", "c", "2", "V", "j", "c", "m", "V",
         "0" >>,
      \* "test-org:k"
      << "p", "u", "b", "l", "i", "c", "_", "d", "G", "V", "z", "d", "C",
         "1", "v", "c", "m", "c", "6", "a", "w", "=", "=" >>,
      \* "test-org:"
      << "p", "u", "b", "l", "i", "c", "_", "d", "G", "V", "z", "d", "C",
         "1", "v", "c", "m", "c", "6" >>,
      \* "org2:secret"
      << "p", "u", "b", "l", "i", "c", "_", "b", "3", "J", "n", "M", "j",
         "p", "z", "Z", "W", "N", "y", "Z", "X", "Q", "=" >>,
      \* "org2:k"
      << "p", "u", "b", "l", "i", "c", "_", "b", "3", "J", "n", "M", "j",
         "p", "r" >>,
      \* "org2:"
      << "p", "u", "b", "l", "i", "c", "_", "b", "3", "J", "n", "M", "j",
         "o", "=" >>,
      \* "t:secret"
      << "p", "u", "b", "l", "i", "c", "_", "d", "D", "p", "z", "Z", "W",
         "N", "y", "Z", "X", "Q", "=" >>,
      \* "t:k"
      << "p", "u", "b", "l", "i", "c", "_", "d", "D", "p", "r" >>,
      \* "t:"
      << "p", "u", "b", "l", "i", "c", "_", "d", "D", "o", "=" >>,
      \* ":secret"
      << "p", "u", "b", "l", "i", "c", "_", "O", "n", "N", "l", "Y", "3",
         "J", "l", "d", "A", "=", "=" >>,
      \* ":k"
      << "p", "u", "b", "l", "i", "c", "_", "O", "m", "s", "=" >>,
      \* ":"
      << "p", "u", "b", "l", "i", "c", "_", "O", "g", "=", "=" >>
    }

\* keys no organization can be decoded from
MalformedKeys ==
    {
      \* the empty key
      << >>,
      \* the key of the tests without the prefix
      << "i", "n", "v", "a", "l", "i", "d", "_", "k", "e", "y" >>,
      \* the prefix alone: nothing to decode
      << "p", "u", "b", "l", "i", "c", "_" >>,
      \* valid base64 without the prefix
      << "d", "G", "V", "z", "d", "C", "1", "v", "c", "m", "c", "6", "c",
         "2", "V", "j", "c", "m", "V", "0" >>,
      \* the prefix in another case
      << "P", "u", "b", "l", "i", "c", "_", "d", "G", "V", "z", "d", "C",
         "1", "v", "c", "m", "c", "6", "c", "2", "V", "j", "c", "m", "V",
         "0" >>,
      \* the prefix not at the start
      << "x", "p", "u", "b", "l", "i", "c", "_", "d", "G", "V", "z", "d",
         "C", "1", "v", "c", "m", "c", "6", "c", "2", "V", "j", "c", "m",
         "V", "0" >>,
      \* base64 without its padding: base64("org2") is b3JnMg==
      << "p", "u", "b", "l", "i", "c", "_", "b", "3", "J", "n", "M", "g" >>,
      \* one padding character where two are due
      << "p", "u", "b", "l", "i", "c", "_", "b", "3", "J", "n", "M", "g",
         "=" >>,
      \* a character outside the alphabet
      << "p", "u", "b", "l", "i", "c", "_", "d", "G", "V", "z", "*", "C",
         "1", "v", "c", "m", "c", "6" >>,
      \* padding before the last quantum
      << "p", "u", "b", "l", "i", "c", "_", "d", "A", "=", "=", "d", "G",
         "V", "z" >>,
      \* padding only
      << "p", "u", "b", "l", "i", "c", "_", "=", "=", "=", "=" >>,
      \* URL-safe alphabet: - for +
      << "p", "u", "b", "l", "i", "c", "_", "d", "G", "V", "z", "-", "C",
         "1", "v" >>
    }

\* further keys DecodeString accepts
OtherKeys ==
    {
      \* base64("org2"): no colon, the whole text is the organization
      << "p", "u", "b", "l", "i", "c", "_", "b", "3", "J", "n", "M", "g",
         "=", "=" >>,
      \* base64("a.b:s:x"): a colon in the secret
      << "p", "u", "b", "l", "i", "c", "_", "Y", "S", "5", "i", "O", "n",
         "M", "6", "e", "A", "=", "=" >>,
      \* the key of the tests with a line feed in it, which DecodeString skips
      << "p", "u", "b", "l", "i", "c", "_", "d", "G", "V", "z", "\n", "d",
         "C", "1", "v", "c", "m", "c", "6", "c", "2", "V", "j", "c", "m",
         "V", "0" >>
    }
KeyInputs == ValidKeys \cup MalformedKeys \cup OtherKeys

\* a key is at hand; nothing has been called yet
KeyInit ==
    /\ pc = "new"
    /\ t = NoToggle
    /\ call = NoCall
    /\ evalContext = NoRequest
    /\ idx = 0
    /\ lastErr = NilErr
    /\ ctxDone = FALSE
    /\ ret = NoReturn
    /\ result = NoReturn
    /\ handled = <<>>
    /\ posts = <<>>
    /\ lastOut = NoOutcome
    /\ options = NoOptions
    /\ newErr = NoReturn
    /\ thePublicKey \in KeyInputs
    /\ theOrgID = NoReturn
    /\ checked = NoLoad
    /\ linkPc = "idle"
    /\ link = NoLink
    /\ linkErr = NoReturn
    /\ netInfo = NoNetInfo
    /\ netInfoErr = NoReturn
    /\ op = NoCall
    /\ opRet = NoReturn
    /\ opHandled = <<>>
    /\ requests = <<>>
    /\ opOut = NoOutcome
    /\ envPc = "idle"
    /\ fs = NoFiles
    /\ environ = NoEnviron
    /\ envOpts = NilEnvOptions
    /\ envRet = NoReturn
    /\ applied = <<>>
    /\ environBefore = NoEnviron
    /\ lastSent = NoCall

\* getOrgIDFromPublicKey(thePublicKey)
DecodeKey ==
    /\ theOrgID = NoReturn
    /\ theOrgID' = [result |-> getOrgIDFromPublicKey(thePublicKey)]
    /\ UNCHANGED <<pc, t, call, evalContext, idx, lastErr, ctxDone, ret, result, handled, posts,
                   lastOut, options, newErr, thePublicKey, raceVars, linkVars, envVars, sentVars>>

\* toggle.New(WithPublicAPIKey(thePublicKey), WithApplicationID("app")), with or
\* without WithHorizonURLs(urls)
NewWithKey ==
    /\ pc = "new"
    /\ \E urls \in OptionHorizonURLs, envKey \in EnvKeys, r \in Rands :
           LET opts == [PublicAPIKey |-> thePublicKey,
                        ApplicationID |-> "app",
                        Environment |-> "",
                        DefaultContext |-> NilContext,
                        HorizonURLs |-> urls,
                        DefaultTargetingKey |-> ""]
           IN  /\ t' = NewToggle(opts, envKey, "", r)
               /\ options' = opts
    /\ newErr' = NilErr
    /\ pc' = "idle"
    /\ UNCHANGED <<call, evalContext, idx, lastErr, ctxDone, ret, result, handled, posts, lastOut>>
    /\ UNCHANGED <<keyVars, raceVars, linkVars, envVars, sentVars>>

KeyNext == DecodeKey \/ NewWithKey

KeySpec == KeyInit /\ [][KeyNext]_vars

-----------------------------------------------------------------------------
(* An evaluation with SetErrorHandler called from another goroutine: the   *)
(* two reads of t.errorHandler in emitError are steps of their own.  The   *)
(* field is written and read without synchronisation, so the call may use  *)
(* the value the nil check read (kept in a register) or read the field     *)
(* again.                                                                  *)

\* t.SetErrorHandler(handler) from another goroutine, at any moment
SetErrorHandlerConcurrently ==
    /\ pc \notin {"new", "panic"}
    /\ \E handler \in Handlers :
           /\ handler # t.errorHandler
           /\ t' = setErrorHandler(t, handler)
    /\ UNCHANGED <<pc, call, evalContext, idx, lastErr, ctxDone, ret, result, handled, posts,
                   lastOut, options, newErr, keyVars, raceVars, linkVars, envVars, sentVars>>

\* the Post in flight returns and Get runs on: to the next Post, to its
\* return of the server's answer, or after the last endpoint into emitError
Attempt ==
    /\ pc = "trying"
    /\ \E out \in (IF ctxDone THEN CancelledOutcomes ELSE LiveOutcomes) :
           LET err == attemptError(t.horizonURLs[idx], out)
               returned == [posts EXCEPT ![idx].state = "returned"]
           IN  /\ lastOut' = out
               /\ IF err = NilErr
                  THEN LET got == successReturn(out, call.toggleKey, call.defaultValue)
                       IN  /\ ret' = got
                           /\ result' = callReturn(call.fn, got, call.defaultValue)
                           /\ posts' = returned
                           /\ lastErr' = NilErr
                           /\ pc' = "done"
                           /\ UNCHANGED idx
                  ELSE IF hasNext(t, idx)
                  THEN /\ lastErr' = recordError(lastErr, err)
                       /\ idx' = idx + 1
                       /\ posts' = Append(returned, PostTo(t, idx + 1, evalContext))
                       /\ UNCHANGED <<pc, ret, result>>
                  ELSE /\ lastErr' = recordError(lastErr, err)
                       /\ posts' = returned
                       /\ pc' = "emitError"
                       /\ UNCHANGED <<idx, ret, result>>
    /\ UNCHANGED <<t, call, evalContext, ctxDone, handled, options, newErr, keyVars, raceVars, linkVars, envVars, sentVars>>

\* emitError: if t.errorHandler != nil; with a nil handler emitError and Get return
EmitCheck ==
    /\ pc = "emitError"
    /\ IF t.errorHandler # NilHandler
       THEN /\ checked' = t.errorHandler
            /\ pc' = "emitCall"
            /\ UNCHANGED <<lastErr, ret, result>>
       ELSE LET got == failureReturn(lastErr, call.defaultValue)
            IN  /\ ret' = got
                /\ result' = callReturn(call.fn, got, call.defaultValue)
                /\ lastErr' = NilErr
                /\ pc' = "done"
                /\ UNCHANGED checked
    /\ UNCHANGED <<t, call, evalContext, idx, ctxDone, handled, posts, lastOut, options, newErr,
                   keyVars, linkVars, envVars, sentVars>>

\* emitError: t.errorHandler(err), then Get returns; calling a nil func panics
EmitCall ==
    /\ pc = "emitCall"
    /\ \E handler \in {checked, t.errorHandler} :
           IF handler = NilHandler
           THEN /\ pc' = "panic"
                /\ UNCHANGED <<lastErr, ret, result, handled>>
           ELSE LET got == failureReturn(lastErr, call.defaultValue)
                IN  /\ handled' = Append(handled, [handler |-> handler, err |-> got.err])
                    /\ ret' = got
                    /\ result' = callReturn(call.fn, got, call.defaultValue)
                    /\ lastErr' = NilErr
                    /\ pc' = "done"
    /\ checked' = NoLoad
    /\ UNCHANGED <<t, call, evalContext, idx, ctxDone, posts, lastOut, options, newErr, keyVars, linkVars, envVars, sentVars>>

RaceNext ==
    \/ New
    \/ SetErrorHandlerConcurrently
    \/ Start
    \/ Cancel
    \/ Attempt
    \/ EmitCheck
    \/ EmitCall
    \/ Return

RaceSpec == Init /\ [][RaceNext]_vars

-----------------------------------------------------------------------------
(* pkg/link and the netinfo package.  API keys, organization ids and URIs  *)
(* are inspected byte by byte, so they are sequences of characters.        *)

\* strings.HasSuffix on byte-wise strings
HasSuffix(s, suffix) ==
    /\ Len(s) >= Len(suffix)
    /\ SubSeq(s, Len(s) - Len(suffix) + 1, Len(s)) = suffix

\* strings.Index: the position of the first occurrence of substr, 0 for none
\* (Go counts from 0 and returns -1 for none)
Index(s, substr) ==
    LET at == { i \in 1..(Len(s) - Len(substr) + 1) :
                    SubSeq(s, i, i + Len(substr) - 1) = substr }
    IN  IF at = {} THEN 0 ELSE CHOOSE i \in at : \A j \in at : i <= j

\* strings.Replace(s, old, new, 1) for a non-empty old
ReplaceFirst(s, old, new) ==
    LET i == Index(s, old)
    IN  IF i = 0 THEN s
        ELSE SubSeq(s, 1, i - 1) \o new \o SubSeq(s, i + Len(old), Len(s))

\* "{organizationId}"
OrganizationIDPlaceholder ==
    << "{", "o", "r", "g", "a", "n", "i", "z", "a", "t", "i", "o", "n", "I",
       "d", "}" >>

\* defaultLinkURIs
defaultLinkURIs ==
    <<
        << "h", "t", "t", "p", "s", ":", "/", "/", "a", "p", "i", ".", "h",
           "y", "p", "h", "e", "n", ".", "a", "i", "/", "a", "p", "i", "/",
           "o", "r", "g", "a", "n", "i", "z", "a", "t", "i", "o", "n", "s",
           "/", "{", "o", "r", "g", "a", "n", "i", "z", "a", "t", "i", "o",
           "n", "I", "d", "}", "/", "l", "i", "n", "k", "/", "c", "o", "d",
           "e", "s", "/" >>
    >>

\* the error link.New returns for a public API key
PublicKeyRefused == [kind |-> "API key cannot start with public_"]

\* link.New(options...): opts are the Options the functional options filled
\* in, envKey and envOrg the values of HYPHEN_API_KEY and
\* HYPHEN_ORGANIZATION_ID; the result is (val, err)
NewLink(opts, envKey, envOrg) ==
    LET apiKey == IF opts.APIKey = <<>> THEN envKey ELSE opts.APIKey
        organizationID == IF opts.OrganizationID = <<>> THEN envOrg
                          ELSE opts.OrganizationID
        uris == IF Len(opts.URIs) = 0 THEN defaultLinkURIs ELSE opts.URIs
    IN  IF apiKey # <<>> /\ HasPrefix(apiKey, PublicPrefix)
        THEN [val |-> NoLink, err |-> PublicKeyRefused]
        ELSE [val |-> [uris |-> uris,
                       organizationID |-> organizationID,
                       apiKey |-> apiKey,
                       errorHandler |-> NilHandler],
              err |-> NilErr]

\* fmt.Errorf("organization ID is required")
OrganizationIDRequired == [kind |-> "organization ID is required"]

\* getURI without its check of the organization id
getURIUnchecked(l, prefix1, prefix2, prefix3) ==
    LET add(u, prefix) == IF prefix = <<>> THEN u
                          ELSE IF HasSuffix(u, << "/" >>) THEN u \o prefix \o << "/" >>
                          ELSE u \o << "/" >> \o prefix
        uri == ReplaceFirst(l.uris[1], OrganizationIDPlaceholder, l.organizationID)
    IN  [uri |-> TrimSlash(add(add(add(uri, prefix1), prefix2), prefix3)),
         err |-> NilErr]

\* Link.getURI: (uri, err)
getURI(l, prefix1, prefix2, prefix3) ==
    IF l.organizationID = <<>>
    THEN [uri |-> <<>>, err |-> OrganizationIDRequired]
    ELSE LET add(u, prefix) ==
                 IF prefix = <<>> THEN u
                 ELSE IF HasSuffix(u, << "/" >>) THEN u \o prefix \o << "/" >>
                 ELSE u \o << "/" >> \o prefix
             uri == ReplaceFirst(l.uris[1], OrganizationIDPlaceholder, l.organizationID)
         IN  [uri |-> TrimSlash(add(add(add(uri, prefix1), prefix2), prefix3)),
              err |-> NilErr]

\* the arguments the calls are made with
TheCode == << "a", "b", "c" >>
TheQRID == << "q", "r", "1" >>

\* "?" + params.Encode() of GetCodeStats for startDate 2024-01-01T00:00:00Z
\* and endDate 2024-01-31T00:00:00Z: the keys sorted, ":" escaped
TheStatsQuery ==
    << "?", "e", "n", "d", "D", "a", "t", "e", "=", "2", "0", "2", "4", "-",
       "0", "1", "-", "3", "1", "T", "0", "0", "%", "3", "A", "0", "0", "%",
       "3", "A", "0", "0", "Z", "&", "s", "t", "a", "r", "t", "D", "a", "t",
       "e", "=", "2", "0", "2", "4", "-", "0", "1", "-", "0", "1", "T", "0",
       "0", "%", "3", "A", "0", "0", "%", "3", "A", "0", "0", "Z" >>

StatusCreated == 201
StatusNoContent == 204

\* the Link operations: the prefixes each hands to getURI, the HTTP method,
\* the query it appends (GetShortCodes and GetQRCodes are called without
\* search and paging arguments, so they append none), the status it
\* expects, what it unmarshals the body into ("none" for the deletes) and
\* the text its errors begin with
LinkOperation(fn) ==
    CASE fn = "CreateShortCode" ->
             [prefixes |-> << <<>>, <<>>, <<>> >>, method |-> "POST", query |-> <<>>,
              status |-> StatusCreated, into |-> "struct",
              failed |-> "failed to create short code"]
      [] fn = "GetShortCode" ->
             [prefixes |-> << TheCode, <<>>, <<>> >>, method |-> "GET", query |-> <<>>,
              status |-> StatusOK, into |-> "struct",
              failed |-> "failed to get short code"]
      [] fn = "GetShortCodes" ->
             [prefixes |-> << <<>>, <<>>, <<>> >>, method |-> "GET", query |-> <<>>,
              status |-> StatusOK, into |-> "struct",
              failed |-> "failed to get short codes"]
      [] fn = "GetTags" ->
             [prefixes |-> << << "t", "a", "g", "s" >>, <<>>, <<>> >>, method |-> "GET",
              query |-> <<>>,
              status |-> StatusOK, into |-> "slice",
              failed |-> "failed to get tags"]
      [] fn = "GetCodeStats" ->
             [prefixes |-> << TheCode, << "s", "t", "a", "t", "s" >>, <<>> >>,
              method |-> "GET", query |-> TheStatsQuery,
              status |-> StatusOK, into |-> "struct",
              failed |-> "failed to get code stats"]
      [] fn = "UpdateShortCode" ->
             [prefixes |-> << TheCode, <<>>, <<>> >>, method |-> "PATCH", query |-> <<>>,
              status |-> StatusOK, into |-> "struct",
              failed |-> "failed to update short code"]
      [] fn = "DeleteShortCode" ->
             [prefixes |-> << TheCode, <<>>, <<>> >>, method |-> "DELETE", query |-> <<>>,
              status |-> StatusNoContent, into |-> "none",
              failed |-> "failed to delete short code"]
      [] fn = "CreateQRCode" ->
             [prefixes |-> << TheCode, << "q", "r", "s" >>, <<>> >>, method |-> "POST",
              query |-> <<>>,
              status |-> StatusCreated, into |-> "struct",
              failed |-> "failed to create QR code"]
      [] fn = "GetQRCode" ->
             [prefixes |-> << TheCode, << "q", "r", "s" >>, TheQRID >>, method |-> "GET",
              query |-> <<>>,
              status |-> StatusOK, into |-> "struct",
              failed |-> "failed to get QR code"]
      [] fn = "GetQRCodes" ->
             [prefixes |-> << TheCode, << "q", "r", "s" >>, <<>> >>, method |-> "GET",
              query |-> <<>>,
              status |-> StatusOK, into |-> "struct",
              failed |-> "failed to get QR codes"]
      [] fn = "DeleteQRCode" ->
             [prefixes |-> << TheCode, << "q", "r", "s" >>, TheQRID >>, method |-> "DELETE",
              query |-> <<>>,
              status |-> StatusNoContent, into |-> "none",
              failed |-> "failed to delete QR code"]

LinkOperations ==
    { "CreateShortCode", "GetShortCode", "GetShortCodes", "GetTags", "GetCodeStats",
      "UpdateShortCode", "DeleteShortCode", "CreateQRCode", "GetQRCode", "GetQRCodes",
      "DeleteQRCode" }

\* the deletes return an error alone, the other operations (result, error)
ReturnsResult(fn) == fn \notin { "DeleteShortCode", "DeleteQRCode" }

\* what an operation returns with error err
failedReturn(fn, err) ==
    IF ReturnsResult(fn) THEN [val |-> NilValue, err |-> err] ELSE [err |-> err]

\* the bodies a Link or NetInfo endpoint answers with: not JSON, a JSON
\* object, a JSON array, JSON null
ServiceBodies ==
    { BodyGarbage, [text |-> "json", value |-> "object"],
      [text |-> "json", value |-> "array"], [text |-> "json", value |-> "null"] }

\* json.Unmarshal(body, &v) succeeds for v a struct or a slice: the body is
\* JSON, and is null or of the shape of v
UnmarshalsInto(body, into) ==
    /\ body.text = "json"
    /\ \/ body.value = "null"
       \/ into = "struct" /\ body.value = "object"
       \/ into = "slice" /\ body.value = "array"

\* responseReturn taking every 2xx status for the one the operation expects
responseReturnAny2xx(fn, operation, out) ==
    IF out.err # ""
    THEN failedReturn(fn, [kind |-> operation.failed, cause |-> out.err])
    ELSE IF out.StatusCode \notin 200..299
    THEN failedReturn(fn, [kind |-> operation.failed, code |-> out.StatusCode])
    ELSE IF operation.into = "none"
    THEN [err |-> NilErr]
    ELSE IF ~UnmarshalsInto(out.Body, operation.into)
    THEN failedReturn(fn, [kind |-> "failed to unmarshal response"])
    ELSE [val |-> [type |-> operation.into, from |-> out.Body], err |-> NilErr]

\* what an operation returns once its HTTP request has returned out: the checks after the request, in the order of the code
responseReturn(fn, operation, out) ==
    IF out.err # ""
    THEN failedReturn(fn, [kind |-> operation.failed, cause |-> out.err])
    ELSE IF out.StatusCode # operation.status
    THEN failedReturn(fn, [kind |-> operation.failed, code |-> out.StatusCode])
    ELSE IF operation.into = "none"
    THEN [err |-> NilErr]
    ELSE IF ~UnmarshalsInto(out.Body, operation.into)
    THEN failedReturn(fn, [kind |-> "failed to unmarshal response"])
    ELSE [val |-> [type |-> operation.into, from |-> out.Body], err |-> NilErr]

\* what the HTTP request of a Link or NetInfo call returns
ServiceOutcomes ==
    { TransportError("dial tcp: connection refused") }
    \cup { Response(code, body) :
               code \in {StatusOK, StatusCreated, StatusNoContent, 500},
               body \in ServiceBodies }

\* the error netinfo.New returns without an API key, and for a public one
APIKeyRequired == [kind |-> "API key is required"]
PublicKeyProvided == [kind |-> "the provided API key is a public API key"]

\* "https://net.info"
DefaultBaseURI ==
    << "h", "t", "t", "p", "s", ":", "/", "/", "n", "e", "t", ".", "i", "n",
       "f", "o" >>

\* netinfo.New(options...): (val, err)
NewNetInfo(opts, envKey) ==
    LET apiKey == IF opts.APIKey = <<>> THEN envKey ELSE opts.APIKey
        baseURI == IF opts.BaseURI = <<>> THEN DefaultBaseURI ELSE opts.BaseURI
    IN  IF apiKey = <<>> THEN [val |-> NoNetInfo, err |-> APIKeyRequired]
        ELSE IF HasPrefix(apiKey, PublicPrefix)
        THEN [val |-> NoNetInfo, err |-> PublicKeyProvided]
        ELSE [val |-> [apiKey |-> apiKey,
                       baseURI |-> baseURI,
                       errorHandler |-> NilHandler],
              err |-> NilErr]

\* the error GetIPInfos returns for an empty list
IPsInvalid ==
    [kind |-> "the provided IPs array is invalid. It should be a non-empty array of strings"]

\* the NetInfo operations: method, path after the base URI, expected status,
\* what the body is unmarshalled into and the text the errors begin with
NetInfoOperation(fn) ==
    CASE fn = "GetIPInfo" ->
             [method |-> "GET", path |-> << "/", "i", "p", "/" >>,
              status |-> StatusOK, into |-> "struct",
              failed |-> "failed to fetch ip info"]
      [] fn = "GetIPInfos" ->
             [method |-> "POST", path |-> << "/", "i", "p" >>,
              status |-> StatusOK, into |-> "struct",
              failed |-> "failed to fetch ip infos"]

\* emitError of Link and of NetInfo: the handler calls made, after this one
serviceEmitError(c, err, calls) ==
    IF c.errorHandler # NilHandler
    THEN Append(calls, [handler |-> c.errorHandler, err |-> err])
    ELSE calls

-----------------------------------------------------------------------------
(* Inputs of link.New, netinfo.New and the calls *)

SecretKey == << "k", "e", "y" >>
PublicKeyX == << "p", "u", "b", "l", "i", "c", "_", "x" >>
LinkOptionKeys == { <<>>, SecretKey, PublicKeyX }
LinkEnvKeys == { <<>>, << "e", "n", "v", "k", "e", "y" >> }

OptionOrganizationIDs == { <<>>, << "o", "r", "g" >> }
EnvOrganizationIDs == { <<>>, << "e", "n", "v", "o", "r", "g" >> }

\* an explicit URI list, of the tests of the package
TestLinkURIs ==
    <<
        << "h", "t", "t", "p", "s", ":", "/", "/", "a", "p", "i", ".", "t",
           "e", "s", "t", ".", "c", "o", "m", "/", "{", "o", "r", "g", "a",
           "n", "i", "z", "a", "t", "i", "o", "n", "I", "d", "}", "/", "c",
           "o", "d", "e", "s", "/" >>
    >>

\* an explicit list of two URIs: the one of the tests and a second one
TwoLinkURIs ==
    TestLinkURIs \o
    <<
        << "h", "t", "t", "p", "s", ":", "/", "/", "b", "a", "c", "k", "u",
           "p", ".", "t", "e", "s", "t", ".", "c", "o", "m", "/", "{", "o",
           "r", "g", "a", "n", "i", "z", "a", "t", "i", "o", "n", "I", "d",
           "}", "/", "c", "o", "d", "e", "s", "/" >>
    >>

LinkOptions ==
    [URIs : { <<>>, TestLinkURIs, TwoLinkURIs },
     OrganizationID : OptionOrganizationIDs,
     APIKey : LinkOptionKeys]

NetInfoOptions ==
    [APIKey : LinkOptionKeys,
     BaseURI : { <<>>,
    << "h", "t", "t", "p", "s", ":", "/", "/", "n", ".", "t", "e", "s", "t",
       "/" >>
               }]

TheIP == << "1", ".", "1", ".", "1", ".", "1" >>
OtherIP == << "8", ".", "8", ".", "8", ".", "8" >>

\* the lists GetIPInfos is called with: nil, and the first n of two addresses
IPLists == { SubSeq(<< TheIP, OtherIP >>, 1, k) : k \in 0..2 }

-----------------------------------------------------------------------------
(* The Link and NetInfo clients as a state machine *)

\* the variables of the Toggle client
toggleVars ==
    <<pc, t, call, evalContext, idx, lastErr, ctxDone, ret, result, handled, posts, lastOut,
      options, newErr>>

\* link.New(options...)
LinkNew ==
    /\ link = NoLink
    /\ linkErr = NoReturn
    /\ \E opts \in LinkOptions, envKey \in LinkEnvKeys, envOrg \in EnvOrganizationIDs :
           LET made == NewLink(opts, envKey, envOrg)
           IN  /\ link' = made.val
               /\ linkErr' = made.err
    /\ UNCHANGED <<linkPc, netInfo, netInfoErr, op, opRet, opHandled, requests, opOut>>
    /\ UNCHANGED <<toggleVars, keyVars, raceVars, envVars, sentVars>>

\* l.SetErrorHandler(handler), between calls
LinkSetErrorHandler ==
    /\ link # NoLink
    /\ linkPc = "idle"
    /\ \E handler \in Handlers :
           /\ handler # link.errorHandler
           /\ link' = [link EXCEPT !.errorHandler = handler]
    /\ UNCHANGED <<linkPc, linkErr, netInfo, netInfoErr, op, opRet, opHandled, requests, opOut>>
    /\ UNCHANGED <<toggleVars, keyVars, raceVars, envVars, sentVars>>

\* netinfo.New(options...)
NetInfoNew ==
    /\ netInfo = NoNetInfo
    /\ netInfoErr = NoReturn
    /\ \E opts \in NetInfoOptions, envKey \in LinkEnvKeys :
           LET made == NewNetInfo(opts, envKey)
           IN  /\ netInfo' = made.val
               /\ netInfoErr' = made.err
    /\ UNCHANGED <<linkPc, link, linkErr, op, opRet, opHandled, requests, opOut>>
    /\ UNCHANGED <<toggleVars, keyVars, raceVars, envVars, sentVars>>

\* n.SetErrorHandler(handler), between calls
NetInfoSetErrorHandler ==
    /\ netInfo # NoNetInfo
    /\ linkPc = "idle"
    /\ \E handler \in Handlers :
           /\ handler # netInfo.errorHandler
           /\ netInfo' = [netInfo EXCEPT !.errorHandler = handler]
    /\ UNCHANGED <<linkPc, link, linkErr, netInfoErr, op, opRet, opHandled, requests, opOut>>
    /\ UNCHANGED <<toggleVars, keyVars, raceVars, envVars, sentVars>>

\* a caller enters a Link operation: getURI, and on its error emitError and
\* the return, otherwise the HTTP request
LinkCall ==
    /\ link # NoLink
    /\ linkPc = "idle"
    /\ \E fn \in LinkOperations :
           LET operation == LinkOperation(fn)
               got == getURI(link, operation.prefixes[1], operation.prefixes[2],
                             operation.prefixes[3])
           IN  /\ op' = [client |-> "Link", fn |-> fn]
               /\ IF got.err # NilErr
                  THEN /\ opHandled' = serviceEmitError(link, got.err, opHandled)
                       /\ opRet' = failedReturn(fn, got.err)
                       /\ linkPc' = "done"
                       /\ UNCHANGED requests
                  ELSE /\ requests' = Append(requests,
                                             [method |-> operation.method,
                                              url |-> got.uri \o operation.query,
                                              headers |-> CreateHeaders(link.apiKey)])
                       /\ linkPc' = "waiting"
                       /\ UNCHANGED <<opRet, opHandled>>
    /\ UNCHANGED <<link, linkErr, netInfo, netInfoErr, opOut>>
    /\ UNCHANGED <<toggleVars, keyVars, raceVars, envVars, sentVars>>

\* a caller enters GetIPInfo(ctx, TheIP) or GetIPInfos(ctx, ips): GetIPInfos
\* checks its list, and on an empty one calls emitError and returns
NetInfoCall ==
    /\ netInfo # NoNetInfo
    /\ linkPc = "idle"
    /\ \E fn \in {"GetIPInfo", "GetIPInfos"}, ips \in IPLists :
           LET operation == NetInfoOperation(fn)
               url == TrimSlash(netInfo.baseURI) \o operation.path
                          \o (IF fn = "GetIPInfo" THEN TheIP ELSE <<>>)
           IN  /\ fn = "GetIPInfo" => ips = <<>>
               /\ op' = [client |-> "NetInfo", fn |-> fn, ips |-> ips]
               /\ IF fn = "GetIPInfos" /\ Len(ips) = 0
                  THEN /\ opHandled' = serviceEmitError(netInfo, IPsInvalid, opHandled)
                       /\ opRet' = [val |-> NilValue, err |-> IPsInvalid]
                       /\ linkPc' = "done"
                       /\ UNCHANGED requests
                  ELSE /\ requests' = Append(requests,
                                             [method |-> operation.method,
                                              url |-> url,
                                              headers |-> CreateHeaders(netInfo.apiKey)])
                       /\ linkPc' = "waiting"
                       /\ UNCHANGED <<opRet, opHandled>>
    /\ UNCHANGED <<link, linkErr, netInfo, netInfoErr, opOut>>
    /\ UNCHANGED <<toggleVars, keyVars, raceVars, envVars, sentVars>>

\* the HTTP request in flight returns and the operation runs to its return
ServiceRespond ==
    /\ linkPc = "waiting"
    /\ \E out \in ServiceOutcomes :
           LET c == IF op.client = "Link" THEN link ELSE netInfo
               operation == IF op.client = "Link" THEN LinkOperation(op.fn)
                            ELSE NetInfoOperation(op.fn)
               got == responseReturn(op.fn, operation, out)
           IN  /\ opOut' = out
               /\ opRet' = got
               /\ opHandled' = IF got.err # NilErr
                               THEN serviceEmitError(c, got.err, opHandled)
                               ELSE opHandled
    /\ linkPc' = "done"
    /\ UNCHANGED <<link, linkErr, netInfo, netInfoErr, op, requests>>
    /\ UNCHANGED <<toggleVars, keyVars, raceVars, envVars, sentVars>>

\* the caller has the result; the clients are ready for the next call
ServiceReturn ==
    /\ linkPc = "done"
    /\ linkPc' = "idle"
    /\ op' = NoCall
    /\ opRet' = NoReturn
    /\ opHandled' = <<>>
    /\ requests' = <<>>
    /\ opOut' = NoOutcome
    /\ UNCHANGED <<link, linkErr, netInfo, netInfoErr>>
    /\ UNCHANGED <<toggleVars, keyVars, raceVars, envVars, sentVars>>

LinkNext ==
    \/ LinkNew
    \/ LinkSetErrorHandler
    \/ NetInfoNew
    \/ NetInfoSetErrorHandler
    \/ LinkCall
    \/ NetInfoCall
    \/ ServiceRespond
    \/ ServiceReturn

LinkSpec == Init /\ [][LinkNext]_vars

-----------------------------------------------------------------------------
(* Evaluations one after the other on the same client: what the evaluation *)
(* before was called with and sent is remembered when it returns           *)

\* the caller has the result; the override context and the targeting key of
\* this evaluation are remembered for the next one
ReturnRemembering ==
    /\ pc = "done"
    /\ lastSent' = [contextOverride |-> call.contextOverride,
                    TargetingKey |-> evalContext.TargetingKey]
    /\ pc' = "idle"
    /\ call' = NoCall
    /\ evalContext' = NoRequest
    /\ idx' = 0
    /\ lastErr' = NilErr
    /\ ctxDone' = FALSE
    /\ ret' = NoReturn
    /\ result' = NoReturn
    /\ handled' = <<>>
    /\ posts' = <<>>
    /\ lastOut' = NoOutcome
    /\ UNCHANGED <<t, options, newErr, keyVars, raceVars, linkVars, envVars>>

RepeatNext == New \/ Start \/ Respond \/ ReturnRemembering

RepeatSpec == Init /\ [][RepeatNext]_vars

-----------------------------------------------------------------------------
(* The env package: LoadEnv over the files of a directory and the process  *)
(* environment.  An environment variable is [set |-> FALSE] or             *)
(* [set |-> TRUE, value |-> v]; a file is missing, unreadable (a directory *)
(* or a text godotenv cannot parse: os.Stat succeeds, godotenv returns an  *)
(* error) or the map of the variables it defines.                          *)

Unset == [set |-> FALSE]
SetTo(v) == [set |-> TRUE, value |-> v]

\* the environment variables of the model
EnvNames == { "THE_VAR", "GO_ENV" }

\* os.Getenv: the empty string for a variable that is not set
Getenv(env, key) == IF env[key].set THEN env[key].value ELSE ""

MissingFile == [kind |-> "missing"]
UnreadableFile == [kind |-> "unreadable"]
FileOf(defs) == [kind |-> "file", defs |-> defs]

\* fileExists: os.Stat returns no error
fileExists(files, path) == files[path].kind # "missing"

\* godotenv.Load (overload = FALSE) and godotenv.Overload (overload = TRUE)
\* of one file: nothing is set when the file cannot be read or parsed; a
\* variable that is in the environment already, empty or not, is set again
\* by Overload only
loadFile(env, file, overload) ==
    IF file.kind # "file" THEN env
    ELSE [key \in DOMAIN env |->
              IF key \in DOMAIN file.defs /\ (~env[key].set \/ overload)
              THEN SetTo(file.defs[key])
              ELSE env[key]]

\* the error os.Getwd returns when the working directory is gone
GetwdFailed == [kind |-> "getwd: no such file or directory"]

\* one step of LoadEnv: the file at path, if it exists, is handed to
\* godotenv.Load or godotenv.Overload and the error is dropped
applyFile(st, files, path, overload) ==
    IF fileExists(files, path)
    THEN [env |-> loadFile(st.env, files[path], overload),
          applied |-> Append(st.applied,
                             [path |-> path,
                              by |-> IF overload THEN "Overload" ELSE "Load"])]
    ELSE st

\* LoadEnv that loads every file with godotenv.Load
LoadEnvLoadOnly(opts, files, env, getwdErr) ==
    LET o == IF opts = NilEnvOptions
             THEN [Path |-> "", Environment |-> "", Local |-> TRUE]
             ELSE opts
    IN  IF o.Path = "" /\ getwdErr # NilErr
        THEN [env |-> env, applied |-> <<>>, err |-> getwdErr]
        ELSE LET s0 == [env |-> env, applied |-> <<>>]
                 s1 == applyFile(s0, files, ".env", FALSE)
                 s2 == IF o.Local THEN applyFile(s1, files, ".env.local", FALSE)
                       ELSE s1
                 environment == IF o.Environment = "" THEN Getenv(s2.env, "GO_ENV")
                                ELSE o.Environment
                 s3 == IF environment # ""
                       THEN applyFile(s2, files, ".env." \o environment, FALSE)
                       ELSE s2
                 s4 == IF environment # "" /\ o.Local
                       THEN applyFile(s3, files, ".env." \o environment \o ".local", FALSE)
                       ELSE s3
             IN  [env |-> s4.env, applied |-> s4.applied, err |-> NilErr]

\* LoadEnv(opts) in a directory holding files, with the process environment
\* env; getwdErr is what os.Getwd returns if it is called.  The result is
\* the environment afterwards, the files handed to godotenv and the error.
LoadEnv(opts, files, env, getwdErr) ==
    LET o == IF opts = NilEnvOptions
             THEN [Path |-> "", Environment |-> "", Local |-> TRUE]
             ELSE opts
    IN  IF o.Path = "" /\ getwdErr # NilErr
        THEN [env |-> env, applied |-> <<>>, err |-> getwdErr]
        ELSE LET s0 == [env |-> env, applied |-> <<>>]
                 s1 == applyFile(s0, files, ".env", FALSE)
                 s2 == IF o.Local THEN applyFile(s1, files, ".env.local", TRUE)
                       ELSE s1
                 environment == IF o.Environment = "" THEN Getenv(s2.env, "GO_ENV")
                                ELSE o.Environment
                 s3 == IF environment # ""
                       THEN applyFile(s2, files, ".env." \o environment, TRUE)
                       ELSE s2
                 s4 == IF environment # "" /\ o.Local
                       THEN applyFile(s3, files, ".env." \o environment \o ".local", TRUE)
                       ELSE s3
             IN  [env |-> s4.env, applied |-> s4.applied, err |-> NilErr]

\* the environments the calls name: one by the option, one by GO_ENV
OptionEnvironment == "staging"
GoEnvEnvironment == "production"

\* the files a directory may hold
EnvFiles ==
    { ".env", ".env.local" }
    \cup { ".env." \o e : e \in {OptionEnvironment, GoEnvEnvironment} }
    \cup { ".env." \o e \o ".local" : e \in {OptionEnvironment, GoEnvEnvironment} }

\* what a file may be: missing, unreadable, or a file that sets THE_VAR to
\* a value naming the file; .env and .env.local may also define nothing of
\* the model's variables or set GO_ENV as well
ContentsOf(name) ==
    { MissingFile, UnreadableFile,
      FileOf([key \in {"THE_VAR"} |-> "from " \o name]) }
    \cup IF name \in { ".env", ".env.local" }
         THEN { FileOf([key \in {} |-> ""]),
                FileOf([key \in {"THE_VAR", "GO_ENV"} |->
                           IF key = "GO_ENV" THEN GoEnvEnvironment
                           ELSE "from " \o name]) }
         ELSE {}

Directories ==
    { files \in [EnvFiles -> UNION { ContentsOf(name) : name \in EnvFiles }] :
          \A name \in EnvFiles : files[name] \in ContentsOf(name) }

\* the environment of the process when LoadEnv is called: THE_VAR set or
\* not, GO_ENV not set, set to the empty string or naming an environment
Environs ==
    { [key \in EnvNames |-> IF key = "THE_VAR" THEN v ELSE g] :
          v \in { Unset, SetTo("preset") },
          g \in { Unset, SetTo(""), SetTo(GoEnvEnvironment) } }

\* the options: nil, a Path with every Environment and Local, and no Path
EnvOptionsGiven ==
    { NilEnvOptions, [Path |-> "", Environment |-> "", Local |-> FALSE] }
    \cup [Path : {"/dir"}, Environment : {"", OptionEnvironment}, Local : BOOLEAN]

\* a directory and an environment are at hand; nothing has been called yet
EnvInit ==
    /\ pc = "new"
    /\ t = NoToggle
    /\ call = NoCall
    /\ evalContext = NoRequest
    /\ idx = 0
    /\ lastErr = NilErr
    /\ ctxDone = FALSE
    /\ ret = NoReturn
    /\ result = NoReturn
    /\ handled = <<>>
    /\ posts = <<>>
    /\ lastOut = NoOutcome
    /\ options = NoOptions
    /\ newErr = NoReturn
    /\ thePublicKey = NoKey
    /\ theOrgID = NoReturn
    /\ checked = NoLoad
    /\ linkPc = "idle"
    /\ link = NoLink
    /\ linkErr = NoReturn
    /\ netInfo = NoNetInfo
    /\ netInfoErr = NoReturn
    /\ op = NoCall
    /\ opRet = NoReturn
    /\ opHandled = <<>>
    /\ requests = <<>>
    /\ opOut = NoOutcome
    /\ envPc = "idle"
    /\ fs \in Directories
    /\ environ \in Environs
    /\ envOpts = NilEnvOptions
    /\ envRet = NoReturn
    /\ applied = <<>>
    /\ environBefore = NoEnviron
    /\ lastSent = NoCall

\* env.LoadEnv(opts)
CallLoadEnv ==
    /\ envPc = "idle"
    /\ \E opts \in EnvOptionsGiven, getwdErr \in { NilErr, GetwdFailed } :
           LET got == LoadEnv(opts, fs, environ, getwdErr)
           IN  /\ opts # NilEnvOptions /\ opts.Path # "" => getwdErr = NilErr
               /\ envOpts' = opts
               /\ environ' = got.env
               /\ applied' = got.applied
               /\ envRet' = got.err
    /\ environBefore' = environ
    /\ envPc' = "done"
    /\ UNCHANGED fs
    /\ UNCHANGED <<toggleVars, keyVars, raceVars, linkVars, sentVars>>

EnvNext == CallLoadEnv

EnvSpec == EnvInit /\ [][EnvNext]_vars

-----------------------------------------------------------------------------
(* What the properties below read of the wire, stated on the response itself *)

\* the response is HTTP 200 with a body of the shape of EvaluationResponse
AnsweredOK(out) ==
    /\ out # NoOutcome
    /\ out.err = ""
    /\ out.StatusCode = 200
    /\ out.Body.text = "json"
    /\ out.Body.toggles.json \in {"absent", "null", "object"}

\* the toggles of the response hold key k
ServerHasKey(out, k) ==
    /\ AnsweredOK(out)
    /\ out.Body.toggles.json = "object"
    /\ k \in DOMAIN out.Body.toggles.obj

\* the JSON value the response holds for key k
ServerValue(out, k) == out.Body.toggles.obj[k].value

\* the JSON type a typed accessor is for
JSONTypeOf(fn) ==
    CASE fn = "GetBoolean" -> "bool"
      [] fn = "GetString" -> "string"
      [] fn = "GetNumber" -> "number"
      [] fn = "GetObject" -> "object"

\* the Go value a typed accessor returns for a JSON value of its type
TypedValue(j) ==
    CASE j.json = "bool" -> [type |-> "bool", bool |-> j.bool]
      [] j.json = "string" -> [type |-> "string", str |-> j.str]
      [] j.json = "number" -> [type |-> "float64", num |-> j.num]
      [] j.json = "object" -> [type |-> "map", obj |-> j.obj]

\* the Go value encoding/json gives an interface{} for a JSON value
InterfaceValue(j) ==
    CASE j.json = "null" -> [type |-> "nil"]
      [] j.json = "array" -> [type |-> "slice", arr |-> j.arr]
      [] OTHER -> TypedValue(j)

\* every endpoint of the list has been posted to and the last Post failed too
AllEndpointsFailed ==
    /\ pc = "done"
    /\ Len(posts) = Len(t.horizonURLs)
    /\ ~AnsweredOK(lastOut)

\* the context an evaluation works from
ActiveContext ==
    IF call.contextOverride # NilContext THEN call.contextOverride ELSE t.defaultContext

-----------------------------------------------------------------------------
(* C1: GetBoolean, GetString and GetNumber return the server's value when  *)
(* the endpoint that answered holds the requested key with a value of the  *)
(* accessor's type, and exactly the caller's default in every other case   *)
(* (key absent, every endpoint failed, value of another type).             *)
C1_TypedAccessorValueOrDefault ==
    (pc = "done" /\ call.fn \in {"GetBoolean", "GetString", "GetNumber"}) =>
        LET matches == /\ ServerHasKey(lastOut, call.toggleKey)
                       /\ ServerValue(lastOut, call.toggleKey).json = JSONTypeOf(call.fn)
        IN  result = [val |-> IF matches
                              THEN TypedValue(ServerValue(lastOut, call.toggleKey))
                              ELSE call.defaultValue]

\* GetNumber returned the server's 42 from the second endpoint
C1_Witness ==
    /\ pc = "done"
    /\ call.fn = "GetNumber"
    /\ Len(posts) = 2
    /\ result = [val |-> NumberValue(42)]

(* C2: fail-open.  Whatever the endpoints do, a typed accessor (GetObject  *)
(* included) hands its caller a value and nothing else, and that value is  *)
(* the flag's value in the response or the caller's default.               *)
C2_FailOpen ==
    (pc = "done" /\ call.fn \in TypedAccessors) =>
        /\ DOMAIN result = {"val"}
        /\ \/ result.val = call.defaultValue
           \/ /\ ServerHasKey(lastOut, call.toggleKey)
              /\ ServerValue(lastOut, call.toggleKey).json = JSONTypeOf(call.fn)
              /\ result.val = TypedValue(ServerValue(lastOut, call.toggleKey))

\* GetObject returned its default after the context was cancelled and every
\* endpoint failed, the handler having been told
C2_Witness ==
    /\ pc = "done"
    /\ call.fn = "GetObject"
    /\ ctxDone
    /\ ret.err # NilErr
    /\ Len(handled) = 1
    /\ result = [val |-> call.defaultValue]

(* C3: within one evaluation the endpoints are posted to in list order, one *)
(* at a time: a Post to endpoint n+1 is made only when the Post to endpoint *)
(* n has returned and failed, and a failure at an endpoint that is not the  *)
(* last one is followed by the Post to the next one, not by the return.     *)
C3_EndpointsInOrder ==
    [][LET n == Len(posts)
       IN  /\ Len(posts') > n =>
                 /\ Len(posts') = n + 1
                 /\ posts'[n + 1].baseURL = t.horizonURLs[n + 1]
                 /\ posts'[n + 1].state = "in flight"
                 /\ \A i \in 1..n : posts'[i].state = "returned"
                 /\ n > 0 => (pc = "trying" /\ ~AnsweredOK(lastOut'))
           /\ ( /\ pc = "trying"
                /\ Len(posts') >= n
                /\ posts'[n].state = "returned"
                /\ ~AnsweredOK(lastOut')
                /\ n < Len(t.horizonURLs) ) =>
                 /\ pc' = "trying"
                 /\ Len(posts') = n + 1
      ]_vars

\* the first endpoint failed with a server error and the second is being tried
C3_Witness ==
    /\ pc = "trying"
    /\ Len(posts) = 2
    /\ lastOut # NoOutcome
    /\ lastOut.err = ""
    /\ lastOut.StatusCode = 500
    /\ posts[1].state = "returned"
    /\ posts[2].state = "in flight"

(* C4: when every endpoint fails, the error handler, if one is set, is     *)
(* called exactly once in that call with a non-nil error, and Get returns  *)
(* the caller's default with a non-nil error; with no handler set Get      *)
(* returns the same and nothing is called.                                 *)
C4_AllFailedReportedOnce ==
    AllEndpointsFailed =>
        /\ ret.val = call.defaultValue
        /\ ret.err # NilErr
        /\ t.errorHandler # NilHandler =>
               /\ Len(handled) = 1
               /\ handled[1].handler = t.errorHandler
               /\ handled[1].err # NilErr
               /\ handled[1].err = ret.err
        /\ t.errorHandler = NilHandler => handled = <<>>

\* two endpoints failed and the handler was called
C4_Witness ==
    /\ AllEndpointsFailed
    /\ Len(posts) = 2
    /\ t.errorHandler # NilHandler
    /\ Len(handled) = 1

(* C5: when the endpoint at position k is the first to answer 200 with a   *)
(* body that parses, Get returns the value that response holds for the key *)
(* with a nil error and the handler is not called, whatever failed before. *)
C5_FirstAnswerWins ==
    (pc = "done" /\ AnsweredOK(lastOut)) =>
        /\ ret.err = NilErr
        /\ handled = <<>>
        /\ posts[Len(posts)].baseURL = t.horizonURLs[Len(posts)]
        /\ ServerHasKey(lastOut, call.toggleKey) =>
               ret.val = InterfaceValue(ServerValue(lastOut, call.toggleKey))

\* the first endpoint failed, the second answered with the key, a handler is set
C5_Witness ==
    /\ pc = "done"
    /\ Len(posts) = 2
    /\ ServerHasKey(lastOut, call.toggleKey)
    /\ t.errorHandler # NilHandler
    /\ ret = [val |-> StringValue("on"), err |-> NilErr]

(* C6: when an endpoint answers and the requested key is not among the     *)
(* toggles returned, Get returns the caller's default with a nil error and *)
(* the handler is not called.                                              *)
C6_AbsentKeyIsDefault ==
    (pc = "done" /\ AnsweredOK(lastOut) /\ ~ServerHasKey(lastOut, call.toggleKey)) =>
        /\ ret = [val |-> call.defaultValue, err |-> NilErr]
        /\ handled = <<>>

\* the response holds another toggle only
C6_Witness ==
    /\ pc = "done"
    /\ ServerHasKey(lastOut, OtherToggleKey)
    /\ ~ServerHasKey(lastOut, call.toggleKey)
    /\ t.errorHandler # NilHandler
    /\ ret.val = call.defaultValue

(* C7: once the caller's context is cancelled during an attempt, the       *)
(* evaluation ends with that attempt: Get returns an error and no Post to  *)
(* a further endpoint is made.                                             *)
C7_CancelEndsEvaluation ==
    [][(pc = "trying" /\ ctxDone) =>
           /\ pc' = "done"
           /\ ret'.err # NilErr
           /\ Len(posts') = Len(posts)
      ]_vars

(* C8: the targeting key of every request sent is non-empty, whatever the  *)
(* override context and the default context are, also with an empty        *)
(* application id.                                                         *)
C8_TargetingKeyNeverEmpty ==
    /\ evalContext # NoRequest => evalContext.TargetingKey # ""
    /\ \A i \in 1..Len(posts) : posts[i].body.TargetingKey # ""

\* a request of a client without application id, from an override context
\* whose user has an empty id, over a default context
C8_Witness ==
    /\ pc = "trying"
    /\ t.applicationID = ""
    /\ t.defaultContext # NilContext
    /\ call.contextOverride # NilContext
    /\ call.contextOverride.TargetingKey = ""
    /\ call.contextOverride.User # NilUser
    /\ call.contextOverride.User.ID = ""
    /\ posts[1].body.Application = ""

\* the keys generateTargetKey can return: the non-empty ones of application
\* id, environment and the random integer, joined by "-"
GeneratedKeys(applicationID, environment) ==
    { IF applicationID # "" /\ environment # ""
      THEN applicationID \o "-" \o environment \o "-" \o ToString(r)
      ELSE IF applicationID # "" THEN applicationID \o "-" \o ToString(r)
      ELSE IF environment # "" THEN environment \o "-" \o ToString(r)
      ELSE ToString(r) : r \in Rands }

\* key is what the precedence of targeting key resolution gives for ctx
ResolvedFrom(ctx, key) ==
    IF ctx.TargetingKey # "" THEN key = ctx.TargetingKey
    ELSE IF ctx.User # NilUser /\ ctx.User.ID # "" THEN key = ctx.User.ID
    ELSE key # "" /\ key \in GeneratedKeys(t.applicationID, t.environment)

(* C9: the targeting key resolved from a context is its targetingKey when  *)
(* that is non-empty, even with a user id set; otherwise its user id when  *)
(* that is non-empty; otherwise a generated key, non-empty, the "-"-join   *)
(* of the non-empty ones of application id, environment and the random     *)
(* integer.  Read where the code resolves a key from a context: the        *)
(* default targeting key New caches from the default context, and the key  *)
(* of a request built from an active context.                              *)
C9_TargetingKeyPrecedence ==
    /\ ( /\ pc # "new"
         /\ options.DefaultTargetingKey = ""
         /\ t.defaultContext # NilContext ) =>
            ResolvedFrom(t.defaultContext, t.defaultTargetingKey)
    /\ (evalContext # NoRequest /\ ActiveContext # NilContext) =>
            ResolvedFrom(ActiveContext, evalContext.TargetingKey)

\* New cached the targeting key of a default context that also has a user id
C9_Witness ==
    /\ pc # "new"
    /\ options.DefaultTargetingKey = ""
    /\ t.defaultContext # NilContext
    /\ t.defaultContext.TargetingKey # ""
    /\ t.defaultContext.User # NilUser
    /\ t.defaultContext.User.ID # ""
    /\ t.defaultTargetingKey = t.defaultContext.TargetingKey

(* C10: an evaluation works from the override context when one is passed   *)
(* and from the default context otherwise; the request's IP address,       *)
(* custom attributes and user, and its targeting key when the context has  *)
(* one, are those of that context alone, so with an override nothing of    *)
(* the default context is sent, and without one the default context's      *)
(* fields are.                                                             *)
C10_ActiveContextOnly ==
    evalContext # NoRequest =>
        /\ ActiveContext # NilContext =>
               /\ evalContext.IPAddress = ActiveContext.IPAddress
               /\ evalContext.CustomAttributes = ActiveContext.CustomAttributes
               /\ evalContext.User = ActiveContext.User
               /\ ActiveContext.TargetingKey # "" =>
                      evalContext.TargetingKey = ActiveContext.TargetingKey
        /\ ActiveContext = NilContext =>
               /\ evalContext.IPAddress = ""
               /\ evalContext.CustomAttributes = NilAttrs
               /\ evalContext.User = NilUser
        /\ (call.contextOverride # NilContext /\ t.defaultContext # NilContext) =>
               /\ evalContext.TargetingKey \notin
                      { t.defaultContext.TargetingKey, "default-user" }
               /\ evalContext.IPAddress # "default-ip"
               /\ evalContext.CustomAttributes # [plan |-> "default"]
               /\ evalContext.User # UserOf("default-user")

\* an override context with nothing set, over a default context with all set
C10_Witness ==
    /\ pc = "trying"
    /\ call.contextOverride # NilContext
    /\ call.contextOverride.IPAddress = ""
    /\ call.contextOverride.User = NilUser
    /\ t.defaultContext # NilContext
    /\ t.defaultContext.TargetingKey # ""
    /\ t.defaultContext.IPAddress # ""
    /\ evalContext.IPAddress = ""
    /\ evalContext.User = NilUser

\* no targeting key can be derived from the context of the call: there is no
\* active context, or it has neither a targeting key nor a user id
NoKeyDerivable ==
    \/ ActiveContext = NilContext
    \/ /\ ActiveContext.TargetingKey = ""
       /\ (ActiveContext.User = NilUser \/ ActiveContext.User.ID = "")

(* C11: for a client built with WithDefaultTargetingKey(k), a request from *)
(* a call whose context gives no targeting key (no active context, or one  *)
(* with neither targetingKey nor user id) carries k as its targeting key.  *)
C11_DefaultTargetingKeyUsed ==
    ( /\ evalContext # NoRequest
      /\ options.DefaultTargetingKey # ""
      /\ NoKeyDerivable ) =>
        evalContext.TargetingKey = options.DefaultTargetingKey

-----------------------------------------------------------------------------
(* What the properties below read of a public API key, stated on the key   *)

\* the byte of a character of the keys
Ord(c) == CHOOSE b \in 0..127 : Chr(b) = c

RECURSIVE EncodeToString(_)
\* the padded standard base64 text of a sequence of bytes
EncodeToString(bytes) ==
    IF bytes = <<>> THEN <<>>
    ELSE LET n == IF Len(bytes) >= 3 THEN 3 ELSE Len(bytes)
             b(k) == IF k <= n THEN bytes[k] ELSE 0
             bits == b(1) * 65536 + b(2) * 256 + b(3)
             digit(k) == encodeStd[((bits \div (64 ^ (4 - k))) % 64) + 1]
             quantum == IF n = 3 THEN << digit(1), digit(2), digit(3), digit(4) >>
                        ELSE IF n = 2 THEN << digit(1), digit(2), digit(3), "=" >>
                        ELSE << digit(1), digit(2), "=", "=" >>
         IN  quantum \o EncodeToString(SubSeq(bytes, n + 1, Len(bytes)))

\* "public_" + base64(tenant + ":" + secret)
PublicKeyOf(tenant, secret) ==
    LET text == tenant \o << ":" >> \o secret
    IN  << "p", "u", "b", "l", "i", "c", "_" >>
            \o EncodeToString([k \in 1..Len(text) |-> Ord(text[k])])

\* tenants and secrets of public keys; neither has a ":" in a tenant
TenantNames ==
    { << "t", "e", "s", "t", "-", "o", "r", "g" >>, << "o", "r", "g", "2" >>,
      << "t" >>, << "a", ".", "b" >>, << >> }

Secrets ==
    { << "s", "e", "c", "r", "e", "t" >>, << "k" >>, << "s", ":", "x" >>, << >> }

\* key begins with "public_"
BeginsWithPublic(key) ==
    /\ Len(key) >= 7
    /\ Str(SubSeq(key, 1, 7)) = "public_"

\* what follows "public_" in key
Remainder(key) == SubSeq(key, 8, Len(key))

\* s is padded standard base64 as encoding/base64 reads it: line breaks
\* aside, quanta of four characters of the alphabet, the last one with up to
\* two "=" at its end
IsStdBase64(s) ==
    LET src == SelectSeq(s, LAMBDA c : c # "\n" /\ c # "\r")
        n == Len(src)
        pad == IF n >= 2 /\ src[n] = "=" /\ src[n - 1] = "=" THEN 2
               ELSE IF n >= 1 /\ src[n] = "=" THEN 1
               ELSE 0
    IN  /\ n % 4 = 0
        /\ \A k \in 1..(n - pad) :
               \E a \in 1..64 : src[k] = encodeStd[a]

\* no organization can be decoded from key: it does not begin with
\* "public_", or what follows is not base64, or is empty, or is the base64 of
\* a text that has nothing before its ":"
NoTenantIn(key) ==
    \/ ~BeginsWithPublic(key)
    \/ ~IsStdBase64(Remainder(key))
    \/ Remainder(key) = <<>>
    \/ \E secret \in Secrets : key = PublicKeyOf(<<>>, secret)

\* the elements of a list of URLs as strings
URLStrings(urls) == [k \in 1..Len(urls) |-> Str(urls[k])]

(* C13: when New is given a non-empty explicit list of endpoints, the      *)
(* client's endpoint list is that list, unchanged and in the given order,  *)
(* whatever the key is (valid, invalid or empty): neither the endpoint of  *)
(* an organization nor the global endpoint is added.                       *)
C13_ExplicitEndpointsUnchanged ==
    (pc # "new" /\ Len(options.HorizonURLs) > 0) =>
        /\ t.horizonURLs = options.HorizonURLs
        /\ \A k \in 1..Len(t.horizonURLs) :
               /\ Str(t.horizonURLs[k]) # "https://toggle.hyphen.cloud"
               /\ \A tenant \in TenantNames :
                      Str(t.horizonURLs[k]) #
                          "https://" \o Str(tenant) \o ".toggle.hyphen.cloud"

\* two explicit endpoints and the valid key of the tests
C13_Witness ==
    /\ pc = "idle"
    /\ Len(options.HorizonURLs) = 2
    /\ Str(t.publicAPIKey) = "public_dGVzdC1vcmc6c2VjcmV0"
    /\ URLStrings(t.horizonURLs) = << "http://h1", "http://h2/" >>

(* C14: without an explicit endpoint list and with a key "public_" +       *)
(* base64(tenant:secret) whose tenant is not empty, the client's endpoint  *)
(* list is exactly the tenant's endpoint https://<tenant>.toggle.hyphen.   *)
(* cloud followed by the global endpoint https://toggle.hyphen.cloud.      *)
C14_TenantEndpointThenGlobal ==
    \A tenant \in TenantNames \ { <<>> }, secret \in Secrets :
        ( /\ pc # "new"
          /\ Len(options.HorizonURLs) = 0
          /\ t.publicAPIKey = PublicKeyOf(tenant, secret) ) =>
            URLStrings(t.horizonURLs) =
                << "https://" \o Str(tenant) \o ".toggle.hyphen.cloud",
                   "https://toggle.hyphen.cloud" >>

\* a client built from the key of tenant org2 with a padded base64 text and
\* no explicit list
C14_Witness ==
    /\ pc = "idle"
    /\ Len(options.HorizonURLs) = 0
    /\ Str(t.publicAPIKey) = "public_b3JnMjpzZWNyZXQ="
    /\ URLStrings(t.horizonURLs) =
           << "https://org2.toggle.hyphen.cloud", "https://toggle.hyphen.cloud" >>

(* C15: without an explicit endpoint list and with a key that is empty or  *)
(* that no tenant can be decoded from, New returns a client and no error,  *)
(* and the client's endpoint list is the global endpoint alone.            *)
C15_GlobalEndpointAlone ==
    ( /\ pc # "new"
      /\ Len(options.HorizonURLs) = 0
      /\ (t.publicAPIKey = <<>> \/ NoTenantIn(t.publicAPIKey)) ) =>
        /\ newErr = NilErr
        /\ t # NoToggle
        /\ URLStrings(t.horizonURLs) = << "https://toggle.hyphen.cloud" >>

\* a client built from a key whose base64 text lacks its padding
C15_Witness ==
    /\ pc = "idle"
    /\ Len(options.HorizonURLs) = 0
    /\ Str(t.publicAPIKey) = "public_b3JnMg"
    /\ newErr = NilErr
    /\ Len(t.horizonURLs) = 1

\* key is one of the keys decoding fails on: it does not begin with
\* "public_", or what follows is not base64, or nothing follows
Undecodable(key) ==
    \/ ~BeginsWithPublic(key)
    \/ ~IsStdBase64(Remainder(key))
    \/ Remainder(key) = <<>>

(* C16: for a key that does not begin with "public_", or whose remainder   *)
(* is not valid standard base64, or whose decoded content is empty,        *)
(* getOrgIDFromPublicKey returns the empty string, never an organization   *)
(* and never an error; a client built with such a key has an empty         *)
(* organization id.                                                        *)
C16_UndecodableKeyGivesEmpty ==
    /\ (theOrgID # NoReturn /\ Undecodable(thePublicKey)) =>
           /\ DOMAIN theOrgID = {"result"}
           /\ theOrgID.result = <<>>
    /\ (pc # "new" /\ Undecodable(t.publicAPIKey)) => t.organizationID = <<>>

\* valid base64 of "test-org:secret" without the prefix has been decoded,
\* and a client built with it
C16_Witness ==
    /\ Str(thePublicKey) = "dGVzdC1vcmc6c2VjcmV0"
    /\ theOrgID # NoReturn
    /\ theOrgID.result = <<>>
    /\ pc = "idle"
    /\ t.publicAPIKey = thePublicKey

(* C17: for every key "public_" + base64(tenant + ":" + secret),           *)
(* getOrgIDFromPublicKey returns exactly the tenant, the text before the   *)
(* first ":", and a client built with the key has it as organization id.   *)
C17_TenantDecoded ==
    \A tenant \in TenantNames, secret \in Secrets :
        /\ (theOrgID # NoReturn /\ thePublicKey = PublicKeyOf(tenant, secret)) =>
               Str(theOrgID.result) = Str(tenant)
        /\ (pc # "new" /\ t.publicAPIKey = PublicKeyOf(tenant, secret)) =>
               Str(t.organizationID) = Str(tenant)

\* the key of tenant a.b, whose secret has a ":" in it, has been decoded and
\* a client built with it
C17_Witness ==
    /\ Str(thePublicKey) = "public_YS5iOnM6eA=="
    /\ theOrgID # NoReturn
    /\ Str(theOrgID.result) = "a.b"
    /\ pc = "idle"
    /\ Str(t.organizationID) = "a.b"

-----------------------------------------------------------------------------
\* the Post in flight comes back in this step, with an HTTP response whose
\* status is not 200
AnsweredNot200 ==
    /\ pc = "trying"
    /\ posts[idx].state = "in flight"
    /\ posts'[idx].state = "returned"
    /\ lastOut'.err = ""
    /\ lastOut'.StatusCode # 200

(* C18: an HTTP status other than 200, 201 included, fails the attempt:    *)
(* the body is not read for a value, the status is recorded as the last    *)
(* error, and the next endpoint is posted to; after the last endpoint Get  *)
(* returns the default with the error that wraps the status.               *)
C18_Non200IsFailure ==
    [][AnsweredNot200 =>
           LET status == [kind |-> "HTTP status", code |-> lastOut'.StatusCode]
           IN  IF idx < Len(t.horizonURLs)
               THEN /\ pc' = "trying"
                    /\ ret' = NoReturn
                    /\ lastErr' = status
                    /\ Len(posts') = idx + 1
                    /\ posts'[idx + 1].baseURL = t.horizonURLs[idx + 1]
                    /\ posts'[idx + 1].state = "in flight"
               ELSE /\ pc' = "done"
                    /\ ret'.val = call.defaultValue
                    /\ ret'.err = [kind |-> "all horizon URLs failed", last |-> status]
                    /\ result'.val = call.defaultValue
      ]_vars

\* the first endpoint answered 201 with a body holding the key, and the
\* second endpoint is being posted to
C18_Witness ==
    /\ pc = "trying"
    /\ idx = 2
    /\ lastOut # NoOutcome
    /\ lastOut.err = ""
    /\ lastOut.StatusCode = 201
    /\ TheToggleKey \in DOMAIN lastOut.Body.toggles.obj
    /\ lastErr = [kind |-> "HTTP status", code |-> 201]
    /\ posts[1].state = "returned"
    /\ posts[2].state = "in flight"

-----------------------------------------------------------------------------
(* C19: SetErrorHandler, with a handler or with nil, may be called at any  *)
(* moment while an evaluation is in flight on the same client: no          *)
(* interleaving has the evaluation call a nil handler and crash, so every  *)
(* evaluation in flight goes on to return its value or its default.        *)
C19_SetErrorHandlerSafe == pc # "panic"

-----------------------------------------------------------------------------
\* the calls made to a handler when it is passed err once, none without one
HandledOnce(handler, err) ==
    IF handler = [nil |-> "func(error)"] THEN <<>>
    ELSE << [handler |-> handler, err |-> err] >>

(* C20: a validation failure is returned at once, without an HTTP request  *)
(* and without a retry: every Link operation of a client whose             *)
(* organization id is empty returns the error "organization ID is          *)
(* required" and, where it has a result, a nil one; GetIPInfos called with *)
(* an empty list of addresses returns an error and a nil result; in both   *)
(* cases the error handler, if one is set, is called exactly once, with    *)
(* that error.                                                             *)
C20_ValidationFailsAtOnce ==
    /\ (op # NoCall /\ op.client = "Link" /\ link.organizationID = <<>>) =>
           /\ linkPc = "done"
           /\ requests = <<>>
           /\ opOut = NoOutcome
           /\ opRet.err = [kind |-> "organization ID is required"]
           /\ "val" \in DOMAIN opRet <=> op.fn \notin {"DeleteShortCode", "DeleteQRCode"}
           /\ "val" \in DOMAIN opRet => opRet.val = [type |-> "nil"]
           /\ opHandled = HandledOnce(link.errorHandler, opRet.err)
    /\ (op # NoCall /\ op.client = "NetInfo" /\ op.fn = "GetIPInfos" /\ op.ips = <<>>) =>
           /\ linkPc = "done"
           /\ requests = <<>>
           /\ opOut = NoOutcome
           /\ opRet.err # NilErr
           /\ opRet.val = [type |-> "nil"]
           /\ opHandled = HandledOnce(netInfo.errorHandler, opRet.err)

\* GetQRCode has returned to the caller of a client without organization id
\* and with an error handler, which was called once
C20_Witness ==
    /\ linkPc = "done"
    /\ op.client = "Link"
    /\ op.fn = "GetQRCode"
    /\ link.organizationID = <<>>
    /\ link.errorHandler # NilHandler
    /\ Len(opHandled) = 1
    /\ opHandled[1].err = opRet.err
    /\ requests = <<>>

-----------------------------------------------------------------------------
\* the status a Link operation expects: 201 from the creates, 204 from the
\* deletes, 200 from the gets and the update
ExpectedStatus(fn) ==
    IF fn \in {"CreateShortCode", "CreateQRCode"} THEN 201
    ELSE IF fn \in {"DeleteShortCode", "DeleteQRCode"} THEN 204
    ELSE 200

\* the request of the Link operation came back with a transport error or
\* with a status that is not the expected one
LinkRequestFailed ==
    /\ opOut # NoOutcome
    /\ (opOut.err # "" \/ opOut.StatusCode # ExpectedStatus(op.fn))

\* the body of the answer decodes into what the operation returns: the
\* deletes read no body, GetTags reads a JSON array, the others a JSON
\* object, and JSON null decodes into either
LinkBodyDecodes ==
    \/ op.fn \in {"DeleteShortCode", "DeleteQRCode"}
    \/ /\ opOut.Body.text = "json"
       /\ opOut.Body.value \in
              {"null", IF op.fn = "GetTags" THEN "array" ELSE "object"}

\* the first URI of the client's list with the organization id in it
FirstURI ==
    LET i == CHOOSE k \in 1..Len(link.uris[1]) : link.uris[1][k] = "{"
    IN  SubSeq(link.uris[1], 1, i - 1) \o link.organizationID

-----------------------------------------------------------------------------
(* What the property of LoadEnv reads of the directory and the options *)

\* the file of that name is readable and defines key
Defines(name, key) ==
    /\ fs[name].kind = "file"
    /\ key \in DOMAIN fs[name].defs

\* the .local files are asked for: Local is true, as it is by default for
\* nil options
LocalAsked == envOpts = [nil |-> "EnvOptions"] \/ envOpts.Local

\* GO_ENV as LoadEnv finds it, after .env and .env.local: the value .env.local
\* gave it, else the value the process had, else the value .env gave it
GoEnvFound ==
    IF LocalAsked /\ Defines(".env.local", "GO_ENV") THEN fs[".env.local"].defs["GO_ENV"]
    ELSE IF environBefore["GO_ENV"].set THEN environBefore["GO_ENV"].value
    ELSE IF Defines(".env", "GO_ENV") THEN fs[".env"].defs["GO_ENV"]
    ELSE ""

\* the environment given: by the option, else by GO_ENV
EnvironmentGiven ==
    IF envOpts # [nil |-> "EnvOptions"] /\ envOpts.Environment # ""
    THEN envOpts.Environment
    ELSE GoEnvFound

\* the files to apply, in order: those of the four that are asked for and exist
FilesInOrder ==
    LET e == EnvironmentGiven
        asked == << ".env" >>
                  \o (IF LocalAsked THEN << ".env.local" >> ELSE <<>>)
                  \o (IF e # "" THEN << ".env." \o e >> ELSE <<>>)
                  \o (IF e # "" /\ LocalAsked THEN << ".env." \o e \o ".local" >> ELSE <<>>)
    IN  SelectSeq(asked, LAMBDA name : fs[name].kind # "missing")

(* C22: LoadEnv applies the files that exist in the order .env,            *)
(* .env.local, .env.<environment>, .env.<environment>.local, the .local    *)
(* files only when Local is true and the environment files only when an    *)
(* environment is given (by the option, else by GO_ENV); a variable that   *)
(* several of the applied files define ends with the value of the last of  *)
(* them; a missing file is skipped and no error is returned for it.        *)
C22_FilesAppliedInOrder ==
    envPc = "done" =>
        /\ envRet # [nil |-> "error"] =>
               /\ envOpts = [nil |-> "EnvOptions"] \/ envOpts.Path = ""
               /\ applied = <<>>
        /\ envRet = [nil |-> "error"] =>
               /\ [k \in 1..Len(applied) |-> applied[k].path] = FilesInOrder
               /\ \A key \in {"THE_VAR", "GO_ENV"} :
                      LET defining == { k \in 1..Len(FilesInOrder) :
                                            Defines(FilesInOrder[k], key) }
                          last == CHOOSE k \in defining : \A j \in defining : j <= k
                      IN  Cardinality(defining) >= 2 =>
                              /\ environ[key].set
                              /\ environ[key].value = fs[FilesInOrder[last]].defs[key]

\* nil options, GO_ENV naming production: the four files were applied, over
\* a THE_VAR the process had set, and the last one's value stands
C22_Witness ==
    /\ envPc = "done"
    /\ envOpts = NilEnvOptions
    /\ environBefore["THE_VAR"].set
    /\ Len(applied) = 4
    /\ applied[4].path = ".env.production.local"
    /\ \A name \in {".env", ".env.local", ".env.production"} : Defines(name, "THE_VAR")
    /\ environ["THE_VAR"] = SetTo("from .env.production.local")

-----------------------------------------------------------------------------
\* the fields of the client that New sets and nothing is to change
ConfigurationOf(tg) ==
    << tg.publicAPIKey, tg.organizationID, tg.applicationID, tg.environment,
       tg.horizonURLs, tg.defaultContext, tg.defaultTargetingKey >>

(* C23: once New has built the client, no step changes its credential,     *)
(* organization id, application id, environment, endpoint list, default    *)
(* context or default targeting key; the steps of an evaluation (its       *)
(* start, every answer of an endpoint, a cancellation, its return),        *)
(* whether it succeeds or fails, change no field at all; the error         *)
(* callback changes only in a step that is no part of an evaluation,       *)
(* SetErrorHandler.                                                        *)
C23_ConfigurationReadOnly ==
    [][pc # "new" =>
           /\ ConfigurationOf(t') = ConfigurationOf(t)
           /\ DOMAIN t' = DOMAIN t
           /\ (pc # "idle" \/ pc' # "idle") => t' = t
           /\ t'.errorHandler # t.errorHandler =>
                  /\ pc = "idle" /\ pc' = "idle"
                  /\ call' = call /\ posts' = posts /\ ret' = ret /\ handled' = handled
      ]_vars

\* an evaluation of a client with a default context, a configured targeting
\* key and a handler set after New has failed at every endpoint, and the
\* client still holds what New was given
C23_Witness ==
    /\ pc = "done"
    /\ ret.err # NilErr
    /\ Len(handled) = 1
    /\ t.errorHandler # NilHandler
    /\ t.defaultContext # NilContext
    /\ t.defaultContext = options.DefaultContext
    /\ options.DefaultTargetingKey # ""
    /\ t.defaultTargetingKey = options.DefaultTargetingKey
    /\ t.horizonURLs = options.HorizonURLs
    /\ t.publicAPIKey = options.PublicAPIKey

-----------------------------------------------------------------------------
(* C24: provided every Post returns, an evaluation that has started        *)
(* reaches its end, and the end is one of two: an endpoint answered and    *)
(* Get returns without error, or every endpoint of the list was posted to  *)
(* and failed and Get returns an error.  No evaluation makes more Posts    *)
(* than the list has endpoints: the Post at position i goes to endpoint i, *)
(* so no endpoint is posted to twice and none is retried.                  *)
C24_EvaluationTerminates ==
    /\ [](pc # "new" =>
              /\ Len(posts) <= Len(t.horizonURLs)
              /\ \A i \in 1..Len(posts) : posts[i].baseURL = t.horizonURLs[i]
              /\ pc = "done" =>
                     \/ /\ ret.err = [nil |-> "error"]
                        /\ AnsweredOK(lastOut)
                     \/ /\ ret.err # [nil |-> "error"]
                        /\ ~AnsweredOK(lastOut)
                        /\ Len(posts) = Len(t.horizonURLs))
    /\ (pc = "trying") ~> (pc = "done")

\* an evaluation over two endpoints has ended after both failed
C24_Witness ==
    /\ pc = "done"
    /\ Len(t.horizonURLs) = 2
    /\ Len(posts) = 2
    /\ posts[1].state = "returned"
    /\ posts[2].state = "returned"
    /\ ret.err # NilErr

-----------------------------------------------------------------------------
\* the Post in flight comes back in this step with HTTP 200 and a body that
\* holds the requested key with a value that is not of the type of the
\* typed accessor called: another JSON type, or null
AnsweredOtherType ==
    /\ pc = "trying"
    /\ call.fn \in {"GetBoolean", "GetString", "GetNumber", "GetObject"}
    /\ posts[idx].state = "in flight"
    /\ posts'[idx].state = "returned"
    /\ ServerHasKey(lastOut', call.toggleKey)
    /\ ServerValue(lastOut', call.toggleKey).json # JSONTypeOf(call.fn)

(* C25: when an endpoint answers 200 with the key present and its value is *)
(* not of the accessor's type (null included), the typed accessor returns  *)
(* the caller's default, silently: Get has returned no error, the error    *)
(* handler is not called, and no further endpoint is posted to.            *)
C25_TypeMismatchIsSilentDefault ==
    [][AnsweredOtherType =>
           /\ pc' = "done"
           /\ result' = [val |-> call.defaultValue]
           /\ ret'.err = [nil |-> "error"]
           /\ handled' = <<>>
           /\ Len(posts') = Len(posts)
      ]_vars

\* GetString of a client with two endpoints and a handler got null from the
\* first endpoint and returned its default; the second was not posted to
C25_Witness ==
    /\ pc = "done"
    /\ call.fn = "GetString"
    /\ Len(t.horizonURLs) = 2
    /\ Len(posts) = 1
    /\ t.errorHandler # NilHandler
    /\ ServerHasKey(lastOut, call.toggleKey)
    /\ ServerValue(lastOut, call.toggleKey) = JSONNull
    /\ result = [val |-> StringValue("fallback")]
    /\ handled = <<>>

-----------------------------------------------------------------------------
\* the failure of an attempt at baseURL that came back with out
FailureOf(baseURL, out) ==
    IF out.err # ""
    THEN [kind |-> "request failed", baseURL |-> baseURL, cause |-> out.err]
    ELSE IF out.StatusCode # 200
    THEN [kind |-> "HTTP status", code |-> out.StatusCode]
    ELSE [kind |-> "failed to unmarshal response"]

(* C26: when Get ends with every endpoint failed, the error it returns and *)
(* hands to the handler wraps the failure of the last endpoint of the list *)
(* and nothing else: it is the same whatever failure was recorded for the  *)
(* endpoints before, and a different failure recorded before is not in it. *)
C26_AggregateWrapsLastFailure ==
    [][(pc = "trying" /\ pc' = "done" /\ ret'.err # [nil |-> "error"]) =>
           LET last == FailureOf(t.horizonURLs[Len(t.horizonURLs)], lastOut')
           IN  /\ ret'.err = [kind |-> "all horizon URLs failed", last |-> last]
               /\ handled' = HandledOnce(t.errorHandler, ret'.err)
               /\ idx > 1 => lastErr # [nil |-> "error"]
               /\ lastErr # last => ret'.err.last # lastErr
      ]_vars

\* two endpoints failed, the second with no connection: the error names the
\* second endpoint, and the handler got it
C26_Witness ==
    /\ pc = "done"
    /\ Len(posts) = 2
    /\ lastOut.err # ""
    /\ ret.err.kind = "all horizon URLs failed"
    /\ ret.err.last.kind = "request failed"
    /\ Str(ret.err.last.baseURL) = "http://h2/"
    /\ Len(handled) = 1
    /\ handled[1].err = ret.err

-----------------------------------------------------------------------------
\* the Post in flight comes back in this step with HTTP 200 and a body of
\* the shape of EvaluationResponse
AnsweredParsable ==
    /\ pc = "trying"
    /\ posts[idx].state = "in flight"
    /\ posts'[idx].state = "returned"
    /\ AnsweredOK(lastOut')

(* C27: the first endpoint that answers 200 with a body that parses ends   *)
(* the evaluation in that step: Get returns without error and no endpoint  *)
(* after it in the list is posted to, also when the response does not hold *)
(* the requested key, in which case the caller's default is returned.      *)
C27_FirstParsableAnswerEnds ==
    [][AnsweredParsable =>
           /\ pc' = "done"
           /\ Len(posts') = idx
           /\ \A i \in 1..Len(posts') : posts'[i].state = "returned"
           /\ ret'.err = [nil |-> "error"]
           /\ ~ServerHasKey(lastOut', call.toggleKey) => ret'.val = call.defaultValue
      ]_vars

\* the first of two endpoints answered with another toggle only: Get
\* returned the default and the second endpoint was not posted to
C27_Witness ==
    /\ pc = "done"
    /\ call.fn = "Get"
    /\ Len(t.horizonURLs) = 2
    /\ Len(posts) = 1
    /\ ServerHasKey(lastOut, OtherToggleKey)
    /\ ~ServerHasKey(lastOut, call.toggleKey)
    /\ ret = [val |-> call.defaultValue, err |-> NilErr]

-----------------------------------------------------------------------------
(* C28: the request of an evaluation is built once, before the first Post: *)
(* every Post of the call carries the same request (application,           *)
(* environment, targeting key, IP address, custom attributes, user), the   *)
(* one built at the start, and so the same targeting key also when the key *)
(* was generated for the call.                                             *)
C28_OneRequestPerEvaluation ==
    \A i \in 1..Len(posts) :
        /\ posts[i].body = evalContext
        /\ \A j \in 1..Len(posts) :
               /\ posts[i].body.Application = posts[j].body.Application
               /\ posts[i].body.Environment = posts[j].body.Environment
               /\ posts[i].body.TargetingKey = posts[j].body.TargetingKey
               /\ posts[i].body.IPAddress = posts[j].body.IPAddress
               /\ posts[i].body.CustomAttributes = posts[j].body.CustomAttributes
               /\ posts[i].body.User = posts[j].body.User

\* the second endpoint is posted to with the key generated for the call from
\* an override context that has neither targeting key nor user
C28_Witness ==
    /\ pc = "trying"
    /\ Len(posts) = 2
    /\ call.contextOverride # NilContext
    /\ call.contextOverride.TargetingKey = ""
    /\ call.contextOverride.User = NilUser
    /\ posts[1].body.TargetingKey \in GeneratedKeys(t.applicationID, t.environment)
    /\ posts[2].body.TargetingKey = posts[1].body.TargetingKey
    /\ posts[2].baseURL # posts[1].baseURL

-----------------------------------------------------------------------------
(* C29: the targeting key is stable across calls: an evaluation made with  *)
(* the same override context as the evaluation before it on the same       *)
(* client (or both without one) sends the same targeting key.              *)
C29_TargetingKeyStable ==
    ( /\ lastSent # NoCall
      /\ evalContext # NoRequest
      /\ call.contextOverride = lastSent.contextOverride ) =>
        evalContext.TargetingKey = lastSent.TargetingKey

-----------------------------------------------------------------------------
\* the Post in flight comes back in this step with HTTP 200
Answered200 ==
    /\ pc = "trying"
    /\ posts[idx].state = "in flight"
    /\ posts'[idx].state = "returned"
    /\ lastOut'.err = ""
    /\ lastOut'.StatusCode = 200

\* the body is JSON without a usable "toggles" mapping: {} or {"toggles": null}
NoTogglesIn(body) ==
    /\ body.text = "json"
    /\ body.toggles.json \in {"absent", "null"}

\* the body does not decode into the response shape: it is not JSON, or its
\* "toggles" is of another JSON type than an object
NotOfResponseShape(body) ==
    \/ body.text # "json"
    \/ body.toggles.json \notin {"absent", "null", "object"}

(* C30: a 200 response whose body is JSON without a usable "toggles"       *)
(* mapping ({} or {"toggles": null}) is a successful response: Get returns *)
(* the caller's default with a nil error, the handler is not called and no *)
(* further endpoint is posted to.  A 200 response fails the attempt only   *)
(* when its body does not decode into the response shape: then the         *)
(* unmarshal failure is recorded and the next endpoint is posted to, or,   *)
(* after the last one, Get returns the error that wraps it.                *)
C30_MissingTogglesIsSuccess ==
    [][Answered200 =>
           /\ NoTogglesIn(lastOut'.Body) =>
                  /\ pc' = "done"
                  /\ ret' = [val |-> call.defaultValue, err |-> [nil |-> "error"]]
                  /\ handled' = <<>>
                  /\ Len(posts') = Len(posts)
           /\ ~NotOfResponseShape(lastOut'.Body) =>
                  /\ pc' = "done"
                  /\ ret'.err = [nil |-> "error"]
           /\ NotOfResponseShape(lastOut'.Body) =>
                  IF idx < Len(t.horizonURLs)
                  THEN /\ pc' = "trying"
                       /\ lastErr' = [kind |-> "failed to unmarshal response"]
                       /\ Len(posts') = idx + 1
                  ELSE /\ pc' = "done"
                       /\ ret'.err = [kind |-> "all horizon URLs failed",
                                      last |-> [kind |-> "failed to unmarshal response"]]
      ]_vars

\* the first of two endpoints answered 200 with {"toggles": null} to a client
\* with a handler: Get returned the default and no error, nothing more was
\* posted
C30_Witness ==
    /\ pc = "done"
    /\ call.fn = "Get"
    /\ Len(t.horizonURLs) = 2
    /\ Len(posts) = 1
    /\ t.errorHandler # NilHandler
    /\ lastOut = Response(200, BodyNullToggles)
    /\ ret = [val |-> call.defaultValue, err |-> NilErr]
    /\ handled = <<>>

====
